---- MODULE Spec2Model ----
(***************************************************************************)
(* DevOverflow: the tag ledger (createQuestion / editQuestion) and the     *)
(* vote ledger (createVote) over the document store, modelled from         *)
(* src/lib/actions/createQuestion.action.ts, editQuestion.action.ts and    *)
(* vote.action.ts.  Each server action is one atomic step: it runs its     *)
(* whole transaction on a working copy of the store and then commits the   *)
(* copy or aborts to the store as it was.                                  *)
(***************************************************************************)
EXTENDS Integers, Sequences, FiniteSets, TLC

VARIABLES
  tags,        \* Tag collection: id -> [name, questions]
  questions,   \* Question collection: id -> [author, title, content, tags, upvotes, downvotes,
               \* version (the version key __v)]
  links,       \* TagQuestion collection: <<tag, question>> -> number of link documents
  answers,     \* Answer collection: id -> [upvotes, downvotes]
  votes,       \* Vote collection: <<author, actionId, actionType, voteType>> -> number of documents
  result,      \* what the last server action handed to its caller
  req,         \* history: the arguments of the last server action
  pre,         \* history: the store as it was when the last server action began
  calls,       \* history: number of tag-ledger calls made so far
  prev,        \* history: the call before the last one, where a specification keeps it
  procs,       \* requests in flight, where a specification runs them concurrently
  fetching,    \* the fetchHandler invocation in progress: its loop state and what it did
  signingIn,   \* the retryOAuthSignIn invocation in progress
  collections, \* Collection (saved question) documents: id -> [author, question]
  dbSession,   \* the store session of the transactional operation in progress
  cached       \* global.mongoose, the connection cache of dbConnect, and its callers

\* The state outside the question store.
infra == <<fetching, signingIn, collections, dbSession, cached>>

vars == <<tags, questions, links, answers, votes, result, req, pre, calls, prev, procs, infra>>

\* The routines outside the question store have not been entered.
InfraIdle ==
  /\ fetching = <<>>
  /\ signingIn = <<>>
  /\ collections = <<>>
  /\ dbSession = <<>>
  /\ cached = <<>>

----------------------------------------------------------------------------
(* Bounds of the model *)

MaxQuestions == 2
MaxTagIds == 3
MaxTagsInput == 2
MaxCount == 3
MaxUsers == 2
MaxCalls == 2
MaxVoteCalls == 4

(* Domains *)

TagIds == 1..MaxTagIds
QuestionIds == 1..MaxQuestions
Users == 1..MaxUsers
NoSession == 0
Sessions == Users \cup {NoSession}

\* A session whose user object carries no id (session?.user?.id is undefined).
SessionWithoutUserId == MaxUsers + 1
Titles == {"t1", "t2"}
Contents == {"c1"}

\* Tag names are strings, modelled as sequences of characters, so that
\* String.toLowerCase and the regular expression `^${tag}$` with flag i are
\* computed character by character.  "." is the regex wildcard.
TagNames == { <<"a", "b">>, <<"A", "b">>, <<"a", ".">>, <<"c", "d">> }

\* The tag lists a caller submits: 1..MaxTagsInput names.  The form refuses a
\* name that is already in the list (QuestionTagField.handleInputKeyDown,
\* a case-sensitive includes), so the names of a list are pairwise different
\* strings; names that differ only in case pass.
TagLists ==
  { l \in UNION { [1..n -> TagNames] : n \in 1..MaxTagsInput } :
      \A i, j \in 1..Len(l) : i # j => l[i] # l[j] }

\* The order in which the store scans a collection for findOne-style queries
\* without a sort is the store's choice (natural order or an index order).
ScanOrders == {"lowest", "highest"}

----------------------------------------------------------------------------
(* JavaScript string helpers *)

LowerChar(c) ==
  CASE c = "A" -> "a"
    [] c = "B" -> "b"
    [] OTHER -> c

toLowerCase(s) == [i \in 1..Len(s) |-> LowerChar(s[i])]

\* new RegExp(`^${tag}$`, 'i').test(name): the tag text is spliced into the
\* pattern unescaped, so "." matches any one character.
RegexMatch(tag, name) ==
  /\ Len(tag) = Len(name)
  /\ \A i \in 1..Len(tag) : tag[i] = "." \/ LowerChar(tag[i]) = LowerChar(name[i])

SeqToSet(s) == { s[i] : i \in 1..Len(s) }

SetMin(S) == CHOOSE x \in S : \A y \in S : x <= y
SetMax(S) == CHOOSE x \in S : \A y \in S : x >= y

----------------------------------------------------------------------------
(* Errors and results *)

\* src/lib/http-errors.ts
RequestErrorClasses ==
  {"RequestError", "ValidationError", "NotFoundError", "ForbiddenError", "UnauthorizedError"}

ForbiddenError == [class |-> "ForbiddenError", statusCode |-> 403, message |-> "Forbidden"]
UnauthorizedError == [class |-> "UnauthorizedError", statusCode |-> 401, message |-> "Unauthorized"]
PlainError(msg) == [class |-> "Error", statusCode |-> 0, message |-> msg]

\* handleError(error, 'server'): a RequestError keeps its status code, any
\* other Error becomes status 500 with the error's message.
handleError(error) ==
  IF error.class \in RequestErrorClasses
    THEN [threw |-> FALSE, success |-> FALSE, status |-> error.statusCode, message |-> error.message]
    ELSE [threw |-> FALSE, success |-> FALSE, status |-> 500, message |-> error.message]

SuccessResponse == [threw |-> FALSE, success |-> TRUE, status |-> 200, message |-> ""]

\* A rejection of the action's promise: the error reaches the caller as an
\* exception, no response object is returned.
Rejection(error) == [threw |-> TRUE, success |-> FALSE, status |-> 0, message |-> error.message]

NoResult == [op |-> "none", threw |-> FALSE, success |-> FALSE, status |-> 0, message |-> "none"]

\* action({params, schema, authorize}): throws UnauthorizedError when
\* authorize is set and there is no session; otherwise yields the session.
\* Inputs are drawn from schema-valid values only.
action(session, authorize) ==
  IF authorize /\ session = NoSession
    THEN [ok |-> FALSE, error |-> UnauthorizedError]
    ELSE [ok |-> TRUE, error |-> UnauthorizedError]

----------------------------------------------------------------------------
(* The store.  A transaction works on a copy db = [tags, questions, links]; *)
(* commitTransaction installs the copy, abortTransaction discards it.       *)

Store == [tags |-> tags, questions |-> questions, links |-> links]

EmptyLinks == [p \in TagIds \X QuestionIds |-> 0]

commitTransaction(store, db) == db

\* Mutant: the abort leaves the writes of the session in place.
abortTransaction_keepsWrites(store, db) == db

abortTransaction(store, db) == store

\* Ids the store still mentions; a new ObjectId is none of them.
ReferencedTagIds(db) ==
  DOMAIN db.tags
    \cup UNION { SeqToSet(db.questions[q].tags) : q \in DOMAIN db.questions }
    \cup { p[1] : p \in { pp \in DOMAIN db.links : db.links[pp] > 0 } }

NewTagId(db) ==
  IF TagIds \ ReferencedTagIds(db) = {}
    THEN MaxTagIds + 1
    ELSE SetMin(TagIds \ ReferencedTagIds(db))

AddLinks(lk, tagIds, q) ==
  [p \in DOMAIN lk |->
     lk[p] + IF p[2] = q THEN Cardinality({ i \in 1..Len(tagIds) : tagIds[i] = p[1] }) ELSE 0]

----------------------------------------------------------------------------
(* Running a server action: the transaction's outcome is installed in the  *)
(* store and the response is handed to the caller.                         *)

InBounds(db) ==
  /\ DOMAIN db.tags \subseteq TagIds
  /\ DOMAIN db.questions \subseteq QuestionIds
  /\ \A t \in DOMAIN db.tags : db.tags[t].questions <= MaxCount

Snapshot == [tags |-> tags, questions |-> questions, links |-> links,
             answers |-> answers, votes |-> votes]

\* try { ...; await session.commitTransaction(); return {success: true, ...} }
\* catch (error) { await session.abortTransaction(); return handleError(error) }
\* run = [db, ok, error] is how the try block ended.
settle(store, run) ==
  IF run.ok
    THEN [db |-> commitTransaction(store, run.db), response |-> SuccessResponse]
    ELSE [db |-> abortTransaction(store, run.db), response |-> handleError(run.error)]

Install(op, settled) ==
  /\ tags' = settled.db.tags
  /\ questions' = settled.db.questions
  /\ links' = settled.db.links
  /\ result' = [op |-> op] @@ settled.response

\* const validationResult = await action({...}): action throws, so a failed
\* validation rejects the server action before any transaction is started.
Rejected(op, validationResult) ==
  /\ UNCHANGED <<tags, questions, links>>
  /\ result' = [op |-> op] @@ Rejection(validationResult.error)

----------------------------------------------------------------------------
(* createQuestion.action.ts *)

\* Tag.findOneAndUpdate({name: /^tag$/i}, {$setOnInsert: {name: tag},
\* $inc: {questions: 1}}, {upsert: true, new: true, session})
upsertTag(db, tag, matching, scan) ==
  IF matching = {}
    THEN [db |-> [db EXCEPT !.tags = db.tags @@ (NewTagId(db) :> [name |-> tag, questions |-> 1])],
          id |-> NewTagId(db)]
    ELSE IF scan = "lowest"
      THEN [db |-> [db EXCEPT !.tags[SetMin(matching)].questions = @ + 1], id |-> SetMin(matching)]
      ELSE [db |-> [db EXCEPT !.tags[SetMax(matching)].questions = @ + 1], id |-> SetMax(matching)]

processTag(db, tag, scan) ==
  upsertTag(db, tag, { t \in DOMAIN db.tags : RegexMatch(tag, db.tags[t].name) }, scan)

appendTag(upTo, next) == [db |-> next.db, ids |-> Append(upTo.ids, next.id)]

\* Promise.all(tags.map(tag => processTag(tag, session))): the upserts of one
\* session are applied in array order; the result lists the tag ids in order.
processTags(db, tagList, scan) ==
  LET upTo[i \in 0..Len(tagList)] ==
        IF i = 0
          THEN [db |-> db, ids |-> <<>>]
          ELSE appendTag(upTo[i - 1], processTag(upTo[i - 1].db, tagList[i], scan))
  IN upTo[Len(tagList)]

\* Question.create([{title, content, author}], {session})
createQuestionDocument(db, title, content, userId) ==
  [db |-> [db EXCEPT !.questions = db.questions @@
             (Cardinality(DOMAIN db.questions) + 1 :>
                [author |-> userId, title |-> title, content |-> content,
                 tags |-> <<>>, upvotes |-> 0, downvotes |-> 0, version |-> 0])],
   id |-> Cardinality(DOMAIN db.questions) + 1]

\* TagQuestion.insertMany(tagIds.map(tagId => ({tag: tagId, question})))
insertManyLinks(db, tagIds, questionId) ==
  [db EXCEPT !.links = AddLinks(db.links, tagIds, questionId)]

\* Question.findByIdAndUpdate(questionId, {$push: {tags: {$each: tagIds}}})
updateQuestionTags(db, questionId, tagIds) ==
  [db EXCEPT !.questions[questionId].tags = @ \o tagIds]

CreateFaults == {"none", "insertMany", "updateQuestionTags"}

\* createTagRelations, then updateQuestionTags; an injected store fault cuts
\* the try block short where it throws and leaves the working copy as it is.
createTagRelations(upserted, questionId, fault) ==
  IF fault = "insertMany"
    THEN [db |-> upserted.db, ok |-> FALSE, error |-> PlainError(fault)]
  ELSE IF fault = "updateQuestionTags"
    THEN [db |-> insertManyLinks(upserted.db, upserted.ids, questionId),
          ok |-> FALSE, error |-> PlainError(fault)]
  ELSE [db |-> updateQuestionTags(insertManyLinks(upserted.db, upserted.ids, questionId),
                                  questionId, upserted.ids),
        ok |-> TRUE, error |-> PlainError("")]

createQuestionTags(created, tagList, scan, fault) ==
  createTagRelations(processTags(created.db, tagList, scan), created.id, fault)

\* The try block of createQuestion.
createQuestionTry(db, title, content, userId, tagList, scan, fault) ==
  createQuestionTags(createQuestionDocument(db, title, content, userId), tagList, scan, fault)

createQuestionRun(validationResult, run) ==
  IF validationResult.ok
    THEN InBounds(run.db) /\ Install("createQuestion", settle(Store, run))
    ELSE Rejected("createQuestion", validationResult)

createQuestion(session, title, content, tagList, scan, fault) ==
  /\ createQuestionRun(action(session, TRUE),
                       createQuestionTry(Store, title, content, session, tagList, scan, fault))
  /\ pre' = Snapshot
  /\ req' = [op |-> "createQuestion", session |-> session, questionId |-> 0,
             title |-> title, content |-> content, tags |-> tagList, fault |-> fault]
  /\ UNCHANGED <<answers, votes>>

----------------------------------------------------------------------------
(* editQuestion.action.ts *)

\* Question.findById(questionId).populate('tags'): the tags array of the
\* loaded document holds the Tag documents of the ids that still exist, in
\* order; an id whose tag is gone is dropped from the populated array.
populateTags(store, questionId) ==
  SelectSeq(store.questions[questionId].tags, LAMBDA t : t \in DOMAIN store.tags)

\* What question.tags.push(existingTag._id) does to the populated array is the
\* installed mongoose's choice (the source pins no version): it casts the id to
\* a Tag document and the array stays populated, or it depopulates the whole
\* array back to ObjectIds.
PushCasts == {"castToDocument", "depopulate"}

\* toString of a Tag document renders the whole document; toString of an
\* ObjectId is its hex string.
DocumentToString(t) == <<"document", t>>
ObjectIdToString(t) == <<"hex", t>>

\* tagId.toString() for an element of the local question.tags array: the
\* elements are Tag documents unless a push has depopulated the array.
localTagToString(t, pushed, push) ==
  IF pushed /\ push = "depopulate" THEN ObjectIdToString(t) ELSE DocumentToString(t)

\* updateQuestionContent: saves title and content only when one differs from
\* the loaded document (store is what the read outside the session saw).
updateQuestionContent(store, db, questionId, title, content) ==
  IF store.questions[questionId].title # title \/ store.questions[questionId].content # content
    THEN [db EXCEPT !.questions[questionId].title = title,
                    !.questions[questionId].content = content]
    ELSE db

\* const normalizedNewTags = newTags.map(tag => tag.toLowerCase())
normalizeTags(newTags) == [i \in 1..Len(newTags) |-> toLowerCase(newTags[i])]

\* normalizedNewTags.filter(newTag => !currentTags.some(existingTag =>
\*   existingTag.name.toLowerCase() === newTag))
tagsToAdd(store, currentTags, normalizedNewTags) ==
  SelectSeq(normalizedNewTags,
            LAMBDA newTag : ~ \E i \in 1..Len(currentTags) :
                                toLowerCase(store.tags[currentTags[i]].name) = newTag)

\* currentTags.filter(currentTag =>
\*   !normalizedNewTags.includes(currentTag.name.toLowerCase()))
tagsToRemove(store, currentTags, normalizedNewTags) ==
  SelectSeq(currentTags,
            LAMBDA t : ~ \E j \in 1..Len(normalizedNewTags) :
                           normalizedNewTags[j] = toLowerCase(store.tags[t].name))

\* The loop over tagsToUpdate (the tags read once by Tag.find before the loop):
\* count 0: delete; count > 0: decrement, and delete when the count read was 1;
\* a negative count: nothing.
\* Mutant: the loop decrements and never deletes.
removeTagCounts_neverDeletes(tg, removeIds) ==
  [t \in DOMAIN tg |->
     IF t \in removeIds /\ tg[t].questions > 0
       THEN [tg[t] EXCEPT !.questions = @ - 1]
       ELSE tg[t]]

\* Mutant: the loop deletes every tag it decrements.
removeTagCounts_deletesEveryTag(tg, removeIds) ==
  [t \in { u \in DOMAIN tg : ~ (u \in removeIds /\ tg[u].questions >= 0) } |-> tg[t]]

removeTagCounts(tg, removeIds) ==
  [t \in { u \in DOMAIN tg : ~ (u \in removeIds /\ tg[u].questions \in {0, 1}) } |->
     IF t \in removeIds /\ tg[t].questions > 0
       THEN [tg[t] EXCEPT !.questions = @ - 1]
       ELSE tg[t]]

\* TagQuestion.deleteMany({tag: {$in: tagIdsToRemove}, question: questionId})
deleteManyLinks(lk, removeIds, questionId) ==
  [p \in DOMAIN lk |-> IF p[1] \in removeIds /\ p[2] = questionId THEN 0 ELSE lk[p]]

\* Question.findByIdAndUpdate(questionId, {$pull: {tags: {$in: tagIdsToRemove}}})
pullTags(tagList, removeIds) == SelectSeq(tagList, LAMBDA t : t \notin removeIds)

\* The block under if (tagsToRemove.length > 0), on the store.
removeTags(db, removeIds, questionId) ==
  IF removeIds = {}
    THEN db
    ELSE [db EXCEPT !.tags = removeTagCounts(db.tags, removeIds),
                    !.links = deleteManyLinks(db.links, removeIds, questionId),
                    !.questions[questionId].tags = pullTags(@, removeIds)]

\* question.tags.filter(tagId => !tagIdsToRemove.some(removeId =>
\*   removeId.toString() === tagId.toString()))
filterLocalTags(localTags, removeIds, pushed, push) ==
  SelectSeq(localTags,
            LAMBDA tagId : ~ \E removeId \in removeIds :
                               ObjectIdToString(removeId) = localTagToString(tagId, pushed, push))

\* question.save({session}) for the tags path.  The path is written only when
\* it is marked modified, which push() does.  After push alone the save sends
\* $push of the pushed ids; after push and the assignment of the filtered array
\* it sends $set of the whole local array; an assignment that leaves the array
\* as it was loaded marks nothing, and nothing is written.  Either write of the
\* array increments the document's version key (__v).
saveTags(db, questionId, localTags, pushedIds, removeIds) ==
  IF pushedIds = <<>>
    THEN db
  ELSE IF removeIds = {}
    THEN [db EXCEPT !.questions[questionId].tags = @ \o pushedIds,
                    !.questions[questionId].version = @ + 1]
  ELSE [db EXCEPT !.questions[questionId].tags = localTags,
                  !.questions[questionId].version = @ + 1]

\* The $set of the whole array is sent with the version key the document was
\* loaded with in its filter; when the stored version has moved on, the save
\* matches no document and throws VersionError.
VersionError(store, db, questionId, toAdd, toRemove) ==
  /\ toAdd # <<>>
  /\ toRemove # <<>>
  /\ db.questions[questionId].version # store.questions[questionId].version

\* processTagChanges after the upserts of tagsToAdd: added = [db, ids].
finishTagChanges(added, currentTags, removeIds, questionId, push) ==
  saveTags(insertManyLinks(removeTags(added.db, removeIds, questionId), added.ids, questionId),
           questionId,
           IF removeIds = {} THEN currentTags \o added.ids
           ELSE filterLocalTags(currentTags \o added.ids, removeIds, added.ids # <<>>, push),
           added.ids,
           removeIds)

applyTagChanges(store, db, currentTags, normalizedNewTags, questionId, scan, push) ==
  finishTagChanges(processTags(db, tagsToAdd(store, currentTags, normalizedNewTags), scan),
                   currentTags,
                   SeqToSet(tagsToRemove(store, currentTags, normalizedNewTags)),
                   questionId, push)

\* processTagChanges(question, newTags, questionId, session); currentTags is
\* the populated tags array of the document loaded before, store the store
\* it was loaded from.
processTagChanges(store, db, currentTags, newTags, questionId, scan, push) ==
  applyTagChanges(store, db, currentTags, normalizeTags(newTags), questionId, scan, push)

\* question.save throws in processTagChanges: an injected store fault or a
\* version conflict.
saveThrows(store, db, currentTags, normalizedNewTags, questionId, fault) ==
  \/ fault = "save"
  \/ VersionError(store, db, questionId,
                  tagsToAdd(store, currentTags, normalizedNewTags),
                  tagsToRemove(store, currentTags, normalizedNewTags))

EditFaults == {"none", "save"}

\* The try block of editQuestion; store is what reads outside the session see.
editQuestionTry(store, db, userId, questionId, title, content, newTags, scan, push, fault) ==
  IF questionId \notin DOMAIN store.questions
    THEN [db |-> db, ok |-> FALSE, error |-> PlainError("Question not found")]
  ELSE IF store.questions[questionId].author # userId
    THEN [db |-> db, ok |-> FALSE, error |-> PlainError("Unauthorized")]
  ELSE [db |-> processTagChanges(store,
                                 updateQuestionContent(store, db, questionId, title, content),
                                 populateTags(store, questionId), newTags, questionId, scan, push),
        ok |-> ~ saveThrows(store, db, populateTags(store, questionId),
                            normalizeTags(newTags), questionId, fault),
        error |-> PlainError("save")]

editQuestionRun(validationResult, run) ==
  IF validationResult.ok
    THEN InBounds(run.db) /\ Install("editQuestion", settle(Store, run))
    ELSE Rejected("editQuestion", validationResult)

editQuestion(session, questionId, title, content, tagList, scan, push, fault) ==
  /\ editQuestionRun(action(session, TRUE),
                     editQuestionTry(Store, Store, session, questionId, title, content,
                                     tagList, scan, push, fault))
  /\ pre' = Snapshot
  /\ req' = [op |-> "editQuestion", session |-> session, questionId |-> questionId,
             title |-> title, content |-> content, tags |-> tagList, fault |-> fault]
  /\ UNCHANGED <<answers, votes>>

----------------------------------------------------------------------------
(* vote.action.ts *)

VoteTypes == {"upvote", "downvote"}
TargetTypes == {"question", "answer"}

\* The targets callers vote on: question 1 and answer 1 exist (and share the
\* id value), question 2 does not exist.
Targets == { <<1, "question">>, <<1, "answer">>, <<2, "question">> }

\* The Vote collection as a bag: the number of Vote documents with the given
\* author, actionId, actionType and voteType (documents differ by _id only).
VoteKeys == { <<u, t[1], t[2], vt>> : u \in Users, t \in Targets, vt \in VoteTypes }

EmptyVotes == [k \in VoteKeys |-> 0]

VoteStore == [votes |-> votes, questions |-> questions, answers |-> answers]

\* const voteField = voteType === 'upvote' ? 'upvotes' : 'downvotes'
voteField(voteType) == IF voteType = "upvote" THEN "upvotes" ELSE "downvotes"

\* Mutant: the counter is changed on the question and on the answer that
\* carry the id.
updateVoteCount_bothCollections(db, targetId, targetType, voteType, change) ==
  [db EXCEPT !.questions = [q \in DOMAIN db.questions |->
                              IF q = targetId
                                THEN [db.questions[q] EXCEPT ![voteField(voteType)] = @ + change]
                                ELSE db.questions[q]],
             !.answers = [a \in DOMAIN db.answers |->
                            IF a = targetId
                              THEN [db.answers[a] EXCEPT ![voteField(voteType)] = @ + change]
                              ELSE db.answers[a]]]

\* Mutant: the counter is always looked up in the Question collection.
updateVoteCount_ignoresTargetType(db, targetId, targetType, voteType, change) ==
  IF targetId \in DOMAIN db.questions
    THEN [db EXCEPT !.questions[targetId][voteField(voteType)] = @ + change]
    ELSE db

\* updateVoteCount: Model.findByIdAndUpdate(targetId, {$inc: {[voteField]:
\* change}}, {session}) on Question or Answer by targetType.  When no document
\* has the id it returns an error response, which its callers do not look at.
\* The changes +1 and -1 its callers pass are taken to pass UpdateVoteCountSchema.
updateVoteCount(db, targetId, targetType, voteType, change) ==
  IF targetType = "question"
    THEN IF targetId \in DOMAIN db.questions
           THEN [db EXCEPT !.questions[targetId][voteField(voteType)] = @ + change]
           ELSE db
    ELSE IF targetId \in DOMAIN db.answers
           THEN [db EXCEPT !.answers[targetId][voteField(voteType)] = @ + change]
           ELSE db

\* Vote.findOne({author, actionId, actionType}).session(session): the vote
\* types of which the user has a Vote document on the target.
existingVoteTypes(db, userId, targetId, targetType) ==
  { vt \in VoteTypes : db.votes[<<userId, targetId, targetType, vt>>] > 0 }

\* Mutant: the vote is deleted and the counter is left as it was.
removeVote_keepsCounter(db, userId, targetId, targetType, voteType) ==
  [db EXCEPT !.votes[<<userId, targetId, targetType, voteType>>] = @ - 1]

\* removeVote: Vote.deleteOne({_id: voteId}), then updateVoteCount(change -1)
removeVote(db, userId, targetId, targetType, voteType) ==
  updateVoteCount([db EXCEPT !.votes[<<userId, targetId, targetType, voteType>>] = @ - 1],
                  targetId, targetType, voteType, -1)

otherVoteType(voteType) == IF voteType = "upvote" THEN "downvote" ELSE "upvote"

\* Mutant: the switch adds to the new counter and forgets the old one.
switchVoteType_noDecrement(db, userId, newVoteType, targetId, targetType) ==
  updateVoteCount(
    [db EXCEPT !.votes[<<userId, targetId, targetType, otherVoteType(newVoteType)>>] = @ - 1,
               !.votes[<<userId, targetId, targetType, newVoteType>>] = @ + 1],
    targetId, targetType, newVoteType, 1)

\* switchVoteType: Vote.findByIdAndUpdate(voteId, {voteType: newVoteType}),
\* updateVoteCount(the other type, -1), updateVoteCount(newVoteType, +1)
switchVoteType(db, userId, newVoteType, targetId, targetType) ==
  updateVoteCount(
    updateVoteCount(
      [db EXCEPT !.votes[<<userId, targetId, targetType, otherVoteType(newVoteType)>>] = @ - 1,
                 !.votes[<<userId, targetId, targetType, newVoteType>>] = @ + 1],
      targetId, targetType, otherVoteType(newVoteType), -1),
    targetId, targetType, newVoteType, 1)

\* Mutant: the vote is recorded and the counter is left as it was.
createNewVote_keepsCounter(db, targetId, targetType, voteType, userId) ==
  [db EXCEPT !.votes[<<userId, targetId, targetType, voteType>>] = @ + 1]

\* createNewVote: Vote.create([{author, actionId, actionType, voteType}]),
\* then updateVoteCount(change +1)
createNewVote(db, targetId, targetType, voteType, userId) ==
  updateVoteCount([db EXCEPT !.votes[<<userId, targetId, targetType, voteType>>] = @ + 1],
                  targetId, targetType, voteType, 1)

\* Mutant: a vote of the other type is not switched, a new vote is recorded.
applyVote_noSwitch(db, existing, userId, targetId, targetType, voteType) ==
  IF voteType \in existing
    THEN removeVote(db, userId, targetId, targetType, voteType)
    ELSE createNewVote(db, targetId, targetType, voteType, userId)

\* if (existingVote) { same type: removeVote; else: switchVoteType }
\* else createNewVote
applyVote(db, existing, userId, targetId, targetType, voteType) ==
  IF existing # {}
    THEN IF voteType \in existing
           THEN removeVote(db, userId, targetId, targetType, voteType)
           ELSE switchVoteType(db, userId, voteType, targetId, targetType)
    ELSE createNewVote(db, targetId, targetType, voteType, userId)

VoteFaults == {"none", "commitTransaction"}

\* The try block of createVote.
createVoteTry(db, userId, targetId, targetType, voteType, fault) ==
  [db |-> applyVote(db, existingVoteTypes(db, userId, targetId, targetType),
                    userId, targetId, targetType, voteType),
   ok |-> fault # "commitTransaction",
   error |-> PlainError(fault)]

InstallVotes(op, settled) ==
  /\ votes' = settled.db.votes
  /\ questions' = settled.db.questions
  /\ answers' = settled.db.answers
  /\ result' = [op |-> op, transaction |-> TRUE] @@ settled.response

\* createVote left before mongoose.startSession(): nothing is written.
NotStarted(op, response) ==
  /\ UNCHANGED <<votes, questions, answers>>
  /\ result' = [op |-> op, transaction |-> FALSE] @@ response

\* Mutant: the user id is looked at only after the transaction was started.
createVoteRun_checksInsideTransaction(validationResult, hasUserId, run) ==
  IF ~ validationResult.ok
    THEN NotStarted("createVote", Rejection(validationResult.error))
  ELSE IF ~ hasUserId
    THEN /\ UNCHANGED <<votes, questions, answers>>
         /\ result' = [op |-> "createVote", transaction |-> TRUE]
                         @@ handleError(PlainError("Unauthorized"))
  ELSE InstallVotes("createVote", settle(VoteStore, run))

\* validationResult = await action(...) rejects without a session; then
\* if (!userId) return handleError(new Error('Unauthorized')); then the
\* transaction.  result.transaction tells whether startTransaction was reached.
createVoteRun(validationResult, hasUserId, run) ==
  IF ~ validationResult.ok
    THEN NotStarted("createVote", Rejection(validationResult.error))
  ELSE IF ~ hasUserId
    THEN NotStarted("createVote", handleError(PlainError("Unauthorized")))
  ELSE InstallVotes("createVote", settle(VoteStore, run))

createVote(session, targetId, targetType, voteType, fault) ==
  /\ createVoteRun(action(session, TRUE), session \in Users,
                   createVoteTry(VoteStore, session, targetId, targetType, voteType, fault))
  /\ pre' = Snapshot
  /\ req' = [op |-> "createVote", session |-> session, targetId |-> targetId,
             targetType |-> targetType, voteType |-> voteType, fault |-> fault]
  /\ UNCHANGED <<tags, links, calls>>

\* hasVoted's result data for the Vote document Vote.findOne({author,
\* actionId, actionType}) returned, or for none.
voteStatus(existing) ==
  [hasUpvoted |-> "upvote" \in existing, hasDownvoted |-> "downvote" \in existing]

HasVotedFaults == {"none", "findOne"}

\* The try block of hasVoted and its catch, which returns a failure with
\* both flags false.
hasVotedTry(store, userId, targetId, targetType, fault) ==
  IF fault = "findOne"
    THEN [threw |-> FALSE, success |-> FALSE, message |-> fault, data |-> voteStatus({})]
    ELSE [threw |-> FALSE, success |-> TRUE, message |-> "",
          data |-> voteStatus(existingVoteTypes(store, userId, targetId, targetType))]

hasVotedRun(validationResult, response) ==
  IF validationResult.ok
    THEN result' = [op |-> "hasVoted"] @@ response
    ELSE result' = [op |-> "hasVoted"] @@ Rejection(validationResult.error)

hasVoted(session, targetId, targetType, fault) ==
  /\ hasVotedRun(action(session, TRUE),
                 hasVotedTry(VoteStore, session, targetId, targetType, fault))
  /\ pre' = Snapshot
  /\ req' = [op |-> "hasVoted", session |-> session, targetId |-> targetId,
             targetType |-> targetType, fault |-> fault]
  /\ UNCHANGED <<tags, questions, links, answers, votes, calls>>

----------------------------------------------------------------------------
(* Specification of the tag ledger: createQuestion and editQuestion calls, *)
(* one after another, on a store that starts empty.                        *)

NoRequest == [op |-> "none"]

NoHistory == [calls |-> 0, req |-> NoRequest]

InitTags ==
  /\ tags = <<>>
  /\ questions = <<>>
  /\ links = EmptyLinks
  /\ answers = <<>>
  /\ votes = EmptyVotes
  /\ result = NoResult
  /\ req = NoRequest
  /\ pre = Snapshot
  /\ calls = 0
  /\ prev = NoHistory
  /\ procs = <<>>
  /\ InfraIdle

\* Only a pattern with a wildcard can match two tags, so only then does the
\* store's scan order matter.
ScanChoices(tagList) ==
  IF \E i \in 1..Len(tagList) : "." \in SeqToSet(tagList[i]) THEN ScanOrders ELSE {"lowest"}

CreateQuestionCall ==
  /\ calls < MaxCalls
  /\ calls' = calls + 1
  /\ \E s \in Sessions, ti \in {"t1"}, c \in Contents, tl \in TagLists, f \in CreateFaults :
       \E sc \in ScanChoices(tl) : createQuestion(s, ti, c, tl, sc, f)
  /\ UNCHANGED <<prev, procs, infra>>

EditQuestionCall ==
  /\ calls < MaxCalls
  /\ calls' = calls + 1
  /\ \E s \in Sessions, q \in QuestionIds, ti \in Titles, c \in Contents, tl \in TagLists,
        f \in EditFaults :
       \E sc \in ScanChoices(tl), pc \in PushCasts : editQuestion(s, q, ti, c, tl, sc, pc, f)
  /\ UNCHANGED <<prev, procs, infra>>

NextTags == CreateQuestionCall \/ EditQuestionCall

SpecTags == InitTags /\ [][NextTags]_vars

----------------------------------------------------------------------------
(* Specification of the vote ledger: createVote and hasVoted calls, one    *)
(* after another, on a store that holds question 1 (asked by user 1 with   *)
(* tag "ab") and answer 1, neither voted on yet.                           *)

SeedQuestion ==
  createQuestionTry([tags |-> <<>>, questions |-> <<>>, links |-> EmptyLinks],
                    "t1", "c1", 1, << <<"a", "b">> >>, "lowest", "none").db

InitVotes ==
  /\ tags = SeedQuestion.tags
  /\ questions = SeedQuestion.questions
  /\ links = SeedQuestion.links
  /\ answers = (1 :> [upvotes |-> 0, downvotes |-> 0])
  /\ votes = EmptyVotes
  /\ result = NoResult
  /\ req = NoRequest
  /\ pre = Snapshot
  /\ calls = 0
  /\ prev = NoHistory
  /\ procs = <<>>
  /\ InfraIdle

CreateVoteCall ==
  /\ \E s \in Sessions \cup {SessionWithoutUserId}, t \in Targets, vt \in VoteTypes,
        f \in VoteFaults :
       createVote(s, t[1], t[2], vt, f)
  /\ UNCHANGED <<prev, procs, infra>>

HasVotedCall ==
  /\ \E s \in Sessions, t \in Targets, f \in HasVotedFaults : hasVoted(s, t[1], t[2], f)
  /\ UNCHANGED <<prev, procs, infra>>

NextVotes == CreateVoteCall \/ HasVotedCall

SpecVotes == InitVotes /\ [][NextVotes]_vars

----------------------------------------------------------------------------
(* Specification of consecutive votes: up to MaxVoteCalls createVote calls  *)
(* by signed-in users without store failures, each remembering the call     *)
(* before it.                                                               *)

ConsecutiveVoteCall ==
  /\ prev.calls < MaxVoteCalls
  /\ \E s \in Users, t \in Targets, vt \in VoteTypes : createVote(s, t[1], t[2], vt, "none")
  /\ prev' = [calls |-> prev.calls + 1, req |-> req, pre |-> pre, result |-> result]
  /\ UNCHANGED <<procs, infra>>

NextConsecutiveVotes == ConsecutiveVoteCall

SpecConsecutiveVotes == InitVotes /\ [][NextConsecutiveVotes]_vars

----------------------------------------------------------------------------
(* Concurrent requests.  Each request runs its server action in a           *)
(* transaction of its own (startSession/startTransaction); the store gives  *)
(* every transaction the snapshot it had at its first operation, and a      *)
(* write to a document that another open transaction has written, or that   *)
(* was committed after the snapshot, fails at once with a write conflict,   *)
(* which the action's catch turns into abortTransaction and handleError.    *)
(* A transaction that has thrown keeps its writes in place until its abort  *)
(* arrives.                                                                 *)
(* Reads made without the session see the committed store.                  *)

Requests == {1, 2}

RECURSIVE SumOver(_, _)
SumOver(f, S) ==
  IF S = {} THEN 0
  ELSE f[CHOOSE x \in S : TRUE] + SumOver(f, S \ {CHOOSE x \in S : TRUE})

EmptyStore == [tags |-> <<>>, questions |-> <<>>, links |-> EmptyLinks]

IdleRequest(push) ==
  [phase |-> "idle", req |-> NoRequest, push |-> push, read |-> EmptyStore,
   snap |-> EmptyStore, held |-> {}, response |-> NoResult, overlapped |-> FALSE]

\* The try block of a request: read is the store its read outside the session
\* saw, snap the snapshot of its transaction.
tryBlock(r, read, snap, push) ==
  IF r.op = "createQuestion"
    THEN createQuestionTry(snap, r.title, r.content, r.session, r.tags, "lowest", "none")
    ELSE editQuestionTry(read, snap, r.session, r.questionId, r.title, r.content, r.tags,
                         "lowest", push, "none")

runOf(p) == tryBlock(p.req, p.read, p.snap, p.push)

\* The documents and index entries a transaction writes.
TagKey(t) == [kind |-> "tag", id |-> t, question |-> 0, name |-> <<>>]
QuestionKey(q) == [kind |-> "question", id |-> q, question |-> 0, name |-> <<>>]
LinkKey(pr) == [kind |-> "link", id |-> pr[1], question |-> pr[2], name |-> <<>>]

\* The entry of an inserted tag in the unique index on the tag name, which
\* compares names without regard to case.
NameKey(name) == [kind |-> "name", id |-> 0, question |-> 0, name |-> toLowerCase(name)]

Doc(collection, k) == IF k \in DOMAIN collection THEN <<collection[k]>> ELSE <<>>

InsertedTagIds(snap, db) == DOMAIN db.tags \ DOMAIN snap.tags

InsertedQuestionIds(snap, db) == DOMAIN db.questions \ DOMAIN snap.questions

\* What the try block writes: updated or deleted documents that the snapshot
\* holds, and the index entries of the tags it inserts.  Inserted documents
\* themselves are new and conflict with nothing.
WriteSet(snap, db) ==
  { TagKey(t) : t \in { u \in DOMAIN snap.tags : Doc(db.tags, u) # <<snap.tags[u]>> } }
    \cup { NameKey(db.tags[t].name) : t \in InsertedTagIds(snap, db) }
    \cup { QuestionKey(q) : q \in { x \in DOMAIN snap.questions :
                                      db.questions[x] # snap.questions[x] } }
    \cup { LinkKey(pr) : pr \in { x \in DOMAIN snap.links : db.links[x] < snap.links[x] } }

PositionOf(tagList, lowerName) ==
  SetMin({ i \in 1..Len(tagList) : toLowerCase(tagList[i]) = lowerName } \cup {Len(tagList) + 1})

\* The order in which the try block reaches its writes.  createQuestion sends
\* its upserts together (Promise.all), so they arrive in any order; in
\* editQuestion the upserts of tagsToAdd come one by one in list order, then
\* the count updates of the removed tags, then the links and the question.
StageOf(r, snap, db, k) ==
  IF r.op = "createQuestion" THEN 1
  ELSE IF k.kind = "name" THEN PositionOf(r.tags, k.name)
  ELSE IF k.kind = "tag" /\ k.id \in DOMAIN db.tags
          /\ db.tags[k.id].questions > snap.tags[k.id].questions
    THEN PositionOf(r.tags, toLowerCase(snap.tags[k.id].name))
  ELSE IF k.kind = "tag" THEN MaxTagsInput + 1
  ELSE MaxTagsInput + 2

Pending(p, db) == WriteSet(p.snap, db) \ p.held

NextWrites(p, db) ==
  { k \in Pending(p, db) :
      \A j \in Pending(p, db) : StageOf(p.req, p.snap, db, k) <= StageOf(p.req, p.snap, db, j) }

\* The unique index on the tag name refuses a second tag of that name: a tag
\* with the name was committed after the snapshot was taken.
NameTaken(snap, cur, lowerName) ==
  \E u \in InsertedTagIds(snap, cur) : toLowerCase(cur.tags[u].name) = lowerName

\* The document (or index entry) was committed by another transaction after
\* the snapshot was taken.
ChangedSince(snap, cur, k) ==
  IF k.kind = "tag" THEN Doc(cur.tags, k.id) # Doc(snap.tags, k.id)
  ELSE IF k.kind = "question" THEN Doc(cur.questions, k.id) # Doc(snap.questions, k.id)
  ELSE IF k.kind = "link" THEN cur.links[<<k.id, k.question>>] # snap.links[<<k.id, k.question>>]
  ELSE NameTaken(snap, cur, k.name)

WriteConflict(p, others, cur, k) ==
  \/ \E o \in DOMAIN others : k \in others[o].held
  \/ ChangedSince(p.snap, cur, k)

\* ObjectIds are never reused: a new id is none that the store or a request
\* in flight still mentions.
UsedTagIds(cur, all) ==
  ReferencedTagIds(cur)
    \cup UNION { ReferencedTagIds(all[o].read) \cup ReferencedTagIds(all[o].snap) : o \in DOMAIN all }

NthSmallest(S, n) == CHOOSE x \in S : Cardinality({ y \in S : y <= x }) = n

\* The ids under which the documents inserted by a transaction are committed.
committedTagId(inserted, free, t) ==
  IF t \in inserted
    THEN NthSmallest(free, Cardinality({ j \in inserted : j <= t }))
    ELSE t

committedQuestionId(insertedQ, cur, q) ==
  IF q \in insertedQ THEN Cardinality(DOMAIN cur.questions) + 1 ELSE q

committedQuestion(doc, inserted, free) ==
  [doc EXCEPT !.tags = [i \in 1..Len(doc.tags) |-> committedTagId(inserted, free, doc.tags[i])]]

\* commitTransaction: the writes of the transaction are applied to the
\* committed store; documents it did not write stay as they are.
mergeTags(snap, db, cur, inserted, free) ==
  [t \in (DOMAIN cur.tags \ (DOMAIN snap.tags \ DOMAIN db.tags))
           \cup { committedTagId(inserted, free, i) : i \in inserted } |->
     IF t \notin DOMAIN cur.tags
       THEN db.tags[CHOOSE i \in inserted : committedTagId(inserted, free, i) = t]
     ELSE IF t \in DOMAIN snap.tags /\ db.tags[t] # snap.tags[t]
       THEN db.tags[t]
     ELSE cur.tags[t]]

mergeQuestions(snap, db, cur, inserted, free) ==
  [q \in DOMAIN cur.questions
           \cup { committedQuestionId(InsertedQuestionIds(snap, db), cur, i) :
                    i \in InsertedQuestionIds(snap, db) } |->
     IF q \notin DOMAIN cur.questions
       THEN committedQuestion(db.questions[CHOOSE i \in InsertedQuestionIds(snap, db) : TRUE],
                              inserted, free)
     ELSE IF q \in DOMAIN snap.questions /\ db.questions[q] # snap.questions[q]
       THEN committedQuestion(db.questions[q], inserted, free)
     ELSE cur.questions[q]]

\* The link documents the transaction inserted or deleted for the pair that
\* is committed as pr.
writtenLinks(snap, db, cur, inserted, free, pr) ==
  { x \in DOMAIN db.links :
      /\ db.links[x] # snap.links[x]
      /\ committedTagId(inserted, free, x[1]) = pr[1]
      /\ committedQuestionId(InsertedQuestionIds(snap, db), cur, x[2]) = pr[2] }

mergeLinks(snap, db, cur, inserted, free) ==
  [pr \in DOMAIN cur.links |->
     cur.links[pr]
       + SumOver([x \in DOMAIN db.links |-> db.links[x] - snap.links[x]],
                 writtenLinks(snap, db, cur, inserted, free, pr))]

merge(snap, db, cur, inserted, free) ==
  [tags |-> mergeTags(snap, db, cur, inserted, free),
   questions |-> mergeQuestions(snap, db, cur, inserted, free),
   links |-> mergeLinks(snap, db, cur, inserted, free)]

FreeTagIds == TagIds \ UsedTagIds(Store, procs)

committed(p, db) == merge(p.snap, db, Store, InsertedTagIds(p.snap, db), FreeTagIds)

WriteConflictError == PlainError("WriteConflict")

finished(p, response) ==
  [p EXCEPT !.phase = "done", !.held = {}, !.read = EmptyStore, !.snap = EmptyStore,
            !.response = response]

thrown(p, error) == [p EXCEPT !.phase = "aborting", !.response = handleError(error)]

\* A request arrives.  editQuestion loads the question without the session
\* (Question.findById(questionId).populate('tags')) before its transaction
\* writes anything; createQuestion reads nothing outside its session.
InFlight(p) == p.phase \in {"received", "open", "aborting"}

\* overlapped remembers that the request was in flight together with another.
ReceiveRequest(r, request) ==
  /\ procs[r].phase = "idle"
  /\ procs' = [o \in Requests |->
                IF o = r
                  THEN [procs[r] EXCEPT !.phase = "received", !.req = request, !.read = Store,
                                        !.overlapped = \E x \in Requests \ {r} : InFlight(procs[x])]
                  ELSE [procs[o] EXCEPT !.overlapped = @ \/ InFlight(procs[o])]]
  /\ UNCHANGED <<tags, questions, links>>

\* The first operation that carries the session fixes the snapshot.
StartTransaction(r) ==
  /\ procs[r].phase = "received"
  /\ procs' = [procs EXCEPT ![r].phase = "open", ![r].snap = Store]
  /\ UNCHANGED <<tags, questions, links>>

\* One write of the transaction reaches the store.
WriteStep(r, db) ==
  /\ procs[r].phase = "open"
  /\ InBounds(db)
  /\ \E k \in NextWrites(procs[r], db) :
       IF WriteConflict(procs[r], [o \in Requests \ {r} |-> procs[o]], Store, k)
         THEN procs' = [procs EXCEPT ![r] = thrown(@, WriteConflictError)]
         ELSE procs' = [procs EXCEPT ![r].held = @ \cup {k}]
  /\ UNCHANGED <<tags, questions, links>>

\* The try block has made all its writes: it commits, or it has thrown and
\* the catch aborts.
FinishTransaction(r, run) ==
  /\ procs[r].phase = "open"
  /\ InBounds(run.db)
  /\ Pending(procs[r], run.db) = {}
  /\ Cardinality(InsertedTagIds(procs[r].snap, run.db)) <= Cardinality(FreeTagIds)
  /\ IF run.ok
       THEN /\ InBounds(committed(procs[r], run.db))
            /\ tags' = committed(procs[r], run.db).tags
            /\ questions' = committed(procs[r], run.db).questions
            /\ links' = committed(procs[r], run.db).links
            /\ procs' = [procs EXCEPT ![r] = finished(@, SuccessResponse)]
       ELSE /\ UNCHANGED <<tags, questions, links>>
            /\ procs' = [procs EXCEPT ![r] = thrown(@, run.error)]

\* catch (error) { await session.abortTransaction(); return handleError(error) }
\* Until the abort reaches the store the writes of the transaction stand in
\* the way of the others.
AbortTransaction(r) ==
  /\ procs[r].phase = "aborting"
  /\ procs' = [procs EXCEPT ![r] = finished(@, @.response)]
  /\ UNCHANGED <<tags, questions, links>>

ConcurrentTagLists ==
  { << <<"a", "b">> >>, << <<"c", "d">> >>,
    << <<"a", "b">>, <<"c", "d">> >>, << <<"c", "d">>, <<"A", "b">> >> }

\* Room for the question of every request.
CreateQuestionArrives ==
  /\ Cardinality(DOMAIN questions) + Cardinality(Requests) <= MaxQuestions
  /\ \E r \in Requests, tl \in ConcurrentTagLists :
       ReceiveRequest(r, [op |-> "createQuestion", session |-> 1, questionId |-> 0,
                          title |-> "t1", content |-> "c1", tags |-> tl, fault |-> "none"])
  /\ UNCHANGED <<answers, votes, result, req, pre, calls, prev, infra>>

EditQuestionArrives ==
  /\ \E r \in Requests, q \in QuestionIds, tl \in ConcurrentTagLists :
       ReceiveRequest(r, [op |-> "editQuestion", session |-> 1, questionId |-> q,
                          title |-> "t1", content |-> "c1", tags |-> tl, fault |-> "none"])
  /\ UNCHANGED <<answers, votes, result, req, pre, calls, prev, infra>>

TransactionStarts ==
  /\ \E r \in Requests : StartTransaction(r)
  /\ UNCHANGED <<answers, votes, result, req, pre, calls, prev, infra>>

TransactionWrites ==
  /\ \E r \in Requests : WriteStep(r, runOf(procs[r]).db)
  /\ UNCHANGED <<answers, votes, result, req, pre, calls, prev, infra>>

TransactionFinishes ==
  /\ \E r \in Requests : FinishTransaction(r, runOf(procs[r]))
  /\ UNCHANGED <<answers, votes, result, req, pre, calls, prev, infra>>

TransactionAborts ==
  /\ \E r \in Requests : AbortTransaction(r)
  /\ UNCHANGED <<answers, votes, result, req, pre, calls, prev, infra>>

\* The stores the requests meet: empty; or two questions of user 1, both
\* tagged "cd"; or both tagged "cd" and "ab".
SeedTwoQuestions(tagList) ==
  createQuestionTry(createQuestionTry(EmptyStore, "t1", "c1", 1, tagList, "lowest", "none").db,
                    "t1", "c1", 1, tagList, "lowest", "none").db

ConcurrentSeeds ==
  { EmptyStore,
    SeedTwoQuestions(<< <<"c", "d">> >>),
    SeedTwoQuestions(<< <<"c", "d">>, <<"a", "b">> >>) }

InitConcurrentTags ==
  /\ \E seed \in ConcurrentSeeds :
       /\ tags = seed.tags
       /\ questions = seed.questions
       /\ links = seed.links
  /\ answers = <<>>
  /\ votes = EmptyVotes
  /\ result = NoResult
  /\ req = NoRequest
  /\ pre = Snapshot
  /\ calls = 0
  /\ prev = NoHistory
  /\ \E push \in PushCasts : procs = [r \in Requests |-> IdleRequest(push)]
  /\ InfraIdle

NextConcurrentTags ==
  \/ CreateQuestionArrives
  \/ EditQuestionArrives
  \/ TransactionStarts
  \/ TransactionWrites
  \/ TransactionFinishes
  \/ TransactionAborts

SpecConcurrentTags == InitConcurrentTags /\ [][NextConcurrentTags]_vars

----------------------------------------------------------------------------
(* Concurrent createVote requests, each in a transaction of its own, under  *)
(* the same store semantics as above.  createVote reads nothing outside its *)
(* session: Vote.findOne(...).session(session) is its first operation and   *)
(* fixes the snapshot.                                                      *)

IdleVoteRequest ==
  [phase |-> "idle", req |-> NoRequest, snap |-> [votes |-> EmptyVotes, questions |-> <<>>,
                                                  answers |-> <<>>],
   held |-> {}, response |-> NoResult, overlapped |-> FALSE]

voteRunOf(p) ==
  createVoteTry(p.snap, p.req.session, p.req.targetId, p.req.targetType, p.req.voteType, "none")

\* The Vote document of a user on a target, updated or deleted.
VoteDocKey(k) == [kind |-> "vote", user |-> k[1], id |-> k[2], targetType |-> k[3]]

\* The entry of an inserted Vote document in the unique index on (author,
\* actionId, actionType).
VoteIndexKey(k) == [kind |-> "voteIndex", user |-> k[1], id |-> k[2], targetType |-> k[3]]

\* The Question or Answer document whose counter is updated.
TargetKey(targetId, targetType) ==
  [kind |-> "target", user |-> 0, id |-> targetId, targetType |-> targetType]

votesOn(vs, user, targetId, targetType) ==
  [vt \in VoteTypes |-> vs[<<user, targetId, targetType, vt>>]]

VoteWriteSet(snap, db) ==
  { IF existingVoteTypes(snap, k[1], k[2], k[3]) = {} THEN VoteIndexKey(k) ELSE VoteDocKey(k) :
      k \in { x \in VoteKeys : db.votes[x] # snap.votes[x] } }
    \cup { TargetKey(q, "question") : q \in { x \in DOMAIN snap.questions :
                                               db.questions[x] # snap.questions[x] } }
    \cup { TargetKey(a, "answer") : a \in { x \in DOMAIN snap.answers :
                                             db.answers[x] # snap.answers[x] } }

\* The vote is written before the counter (createNewVote, removeVote,
\* switchVoteType).
VoteStageOf(k) == IF k.kind = "target" THEN 2 ELSE 1

VotePending(p, db) == VoteWriteSet(p.snap, db) \ p.held

NextVoteWrites(p, db) ==
  { k \in VotePending(p, db) : \A j \in VotePending(p, db) : VoteStageOf(k) <= VoteStageOf(j) }

VoteChangedSince(snap, cur, k) ==
  IF k.kind = "target"
    THEN IF k.targetType = "question"
           THEN Doc(cur.questions, k.id) # Doc(snap.questions, k.id)
           ELSE Doc(cur.answers, k.id) # Doc(snap.answers, k.id)
    ELSE votesOn(cur.votes, k.user, k.id, k.targetType)
           # votesOn(snap.votes, k.user, k.id, k.targetType)

SameDocument(j, k) ==
  /\ j.id = k.id
  /\ j.targetType = k.targetType
  /\ j.user = k.user
  /\ (j.kind = "target") = (k.kind = "target")

VoteWriteConflict(p, others, cur, k) ==
  \/ \E o \in DOMAIN others : \E j \in others[o].held : SameDocument(j, k)
  \/ VoteChangedSince(p.snap, cur, k)

\* commitTransaction: the documents the transaction wrote replace the
\* committed ones, the Vote documents it inserted or deleted are added or
\* taken away.
mergeVotes(snap, db, cur) ==
  [votes |-> [k \in DOMAIN cur.votes |-> cur.votes[k] + db.votes[k] - snap.votes[k]],
   questions |-> [q \in DOMAIN cur.questions |->
                    IF q \in DOMAIN snap.questions /\ db.questions[q] # snap.questions[q]
                      THEN db.questions[q] ELSE cur.questions[q]],
   answers |-> [a \in DOMAIN cur.answers |->
                  IF a \in DOMAIN snap.answers /\ db.answers[a] # snap.answers[a]
                    THEN db.answers[a] ELSE cur.answers[a]]]

voteFinished(p, response) ==
  [p EXCEPT !.phase = "done", !.held = {}, !.response = response,
            !.snap = IdleVoteRequest.snap]

\* createVote arrives with a session that carries a user id and reaches
\* Vote.findOne in its transaction.
ReceiveVote(r, request) ==
  /\ procs[r].phase = "idle"
  /\ procs' = [o \in Requests |->
                IF o = r
                  THEN [procs[r] EXCEPT !.phase = "open", !.req = request, !.snap = VoteStore,
                                        !.overlapped = \E x \in Requests \ {r} : InFlight(procs[x])]
                  ELSE [procs[o] EXCEPT !.overlapped = @ \/ InFlight(procs[o])]]
  /\ UNCHANGED <<votes, questions, answers>>

VoteWriteStep(r, db) ==
  /\ procs[r].phase = "open"
  /\ \E k \in NextVoteWrites(procs[r], db) :
       IF VoteWriteConflict(procs[r], [o \in Requests \ {r} |-> procs[o]], VoteStore, k)
         THEN procs' = [procs EXCEPT ![r] = thrown(@, WriteConflictError)]
         ELSE procs' = [procs EXCEPT ![r].held = @ \cup {k}]
  /\ UNCHANGED <<votes, questions, answers>>

FinishVote(r, run) ==
  /\ procs[r].phase = "open"
  /\ VotePending(procs[r], run.db) = {}
  /\ votes' = mergeVotes(procs[r].snap, run.db, VoteStore).votes
  /\ questions' = mergeVotes(procs[r].snap, run.db, VoteStore).questions
  /\ answers' = mergeVotes(procs[r].snap, run.db, VoteStore).answers
  /\ procs' = [procs EXCEPT ![r] = voteFinished(@, SuccessResponse)]

AbortVote(r) ==
  /\ procs[r].phase = "aborting"
  /\ procs' = [procs EXCEPT ![r] = voteFinished(@, @.response)]
  /\ UNCHANGED <<votes, questions, answers>>

VoteArrives ==
  /\ \E r \in Requests, s \in Users, t \in Targets, vt \in VoteTypes :
       ReceiveVote(r, [op |-> "createVote", session |-> s, targetId |-> t[1],
                       targetType |-> t[2], voteType |-> vt, fault |-> "none"])
  /\ UNCHANGED <<tags, links, result, req, pre, calls, prev, infra>>

VoteWrites ==
  /\ \E r \in Requests : VoteWriteStep(r, voteRunOf(procs[r]).db)
  /\ UNCHANGED <<tags, links, result, req, pre, calls, prev, infra>>

VoteFinishes ==
  /\ \E r \in Requests : FinishVote(r, voteRunOf(procs[r]))
  /\ UNCHANGED <<tags, links, result, req, pre, calls, prev, infra>>

VoteAborts ==
  /\ \E r \in Requests : AbortVote(r)
  /\ UNCHANGED <<tags, links, result, req, pre, calls, prev, infra>>

InitConcurrentVotes ==
  /\ tags = SeedQuestion.tags
  /\ questions = SeedQuestion.questions
  /\ links = SeedQuestion.links
  /\ answers = (1 :> [upvotes |-> 0, downvotes |-> 0])
  /\ votes = EmptyVotes
  /\ result = NoResult
  /\ req = NoRequest
  /\ pre = Snapshot
  /\ calls = 0
  /\ prev = NoHistory
  /\ procs = [r \in Requests |-> IdleVoteRequest]
  /\ InfraIdle

NextConcurrentVotes == VoteArrives \/ VoteWrites \/ VoteFinishes \/ VoteAborts

SpecConcurrentVotes == InitConcurrentVotes /\ [][NextConcurrentVotes]_vars

----------------------------------------------------------------------------
(* Specification of edits on stored counts: editQuestion calls on a store  *)
(* whose Tag documents carry any count the collection can hold, zero and   *)
(* negative included (questions is a plain Number; the removal loop itself *)
(* has a branch for a stored count of 0).                                  *)

StoredCounts == -1..MaxCount

withStoredCounts(seed, counts) ==
  [seed EXCEPT !.tags = [t \in DOMAIN seed.tags |-> [seed.tags[t] EXCEPT !.questions = counts[t]]]]

InitStoredCounts ==
  /\ \E counts \in [DOMAIN SeedTwoQuestions(<< <<"c", "d">>, <<"a", "b">> >>).tags -> StoredCounts] :
       /\ tags = withStoredCounts(SeedTwoQuestions(<< <<"c", "d">>, <<"a", "b">> >>), counts).tags
       /\ questions = SeedTwoQuestions(<< <<"c", "d">>, <<"a", "b">> >>).questions
       /\ links = SeedTwoQuestions(<< <<"c", "d">>, <<"a", "b">> >>).links
  /\ answers = <<>>
  /\ votes = EmptyVotes
  /\ result = NoResult
  /\ req = NoRequest
  /\ pre = Snapshot
  /\ calls = 0
  /\ prev = NoHistory
  /\ procs = <<>>
  /\ InfraIdle

\* One editQuestion call on the store as it was found.
StoredCountEditCall ==
  /\ calls = 0
  /\ calls' = 1
  /\ \E s \in Sessions, q \in QuestionIds, ti \in Titles, c \in Contents, tl \in TagLists,
        f \in EditFaults :
       \E sc \in ScanChoices(tl), pc \in PushCasts : editQuestion(s, q, ti, c, tl, sc, pc, f)
  /\ UNCHANGED <<prev, procs, infra>>

NextStoredCounts == StoredCountEditCall

SpecStoredCounts == InitStoredCounts /\ [][NextStoredCounts]_vars

-----------------------------------------------------------------------------
(* fetchHandler and the api methods built on it.  One invocation is followed *)
(* step by step: every await of the loop is a place where the network, the   *)
(* abort timer or the backoff timer decides what happens next.               *)

\* The state of the store while a routine outside it runs.
StoreIdle ==
  /\ tags = <<>>
  /\ questions = <<>>
  /\ links = EmptyLinks
  /\ answers = <<>>
  /\ votes = EmptyVotes
  /\ result = NoResult
  /\ req = NoRequest
  /\ pre = Snapshot
  /\ calls = 0
  /\ prev = NoHistory
  /\ procs = <<>>

storeVars == <<tags, questions, links, answers, votes, result, req, pre, calls, prev, procs>>

\* An option the caller left out.
Undefined == -1

\* const { timeout = 5000, ..., maxRetries = 3, retryDelay = 1000 } = options
DefaultTimeout == 5000
DefaultMaxRetries == 3
DefaultRetryDelay == 1000

\* Largest maxRetries of a direct fetchHandler call.
MaxRetriesOption == 2

HttpMethods == {"GET", "POST", "PUT", "DELETE"}

\* makeApiRequest: method defaults to GET and timeout to 5000; maxRetries and
\* retryDelay are handed on as given, undefined when the caller left them out.
makeApiRequest(endpoint, method, timeout, maxRetries, retryDelay) ==
  [call |-> endpoint, method |-> method,
   timeout |-> IF timeout = Undefined THEN DefaultTimeout ELSE timeout,
   maxRetries |-> maxRetries, retryDelay |-> retryDelay]

createApiMethods(basePath) ==
  { makeApiRequest(<<basePath, "getAll">>, "GET", Undefined, Undefined, Undefined),
    makeApiRequest(<<basePath, "getById">>, "GET", Undefined, Undefined, Undefined),
    makeApiRequest(<<basePath, "create">>, "POST", Undefined, Undefined, Undefined),
    makeApiRequest(<<basePath, "update">>, "PUT", Undefined, Undefined, Undefined),
    makeApiRequest(<<basePath, "delete">>, "DELETE", Undefined, Undefined, Undefined) }

oAuthSignIn == makeApiRequest(<<"auth", "oAuthSignIn">>, "POST", Undefined, 5, 5000)

\* The requests the api object can send.  users.getById replaces the getById
\* of createApiMethods.
api ==
  {oAuthSignIn}
    \cup { m \in createApiMethods("users") : m.call # <<"users", "getById">> }
    \cup { makeApiRequest(<<"users", "getById">>, "GET", Undefined, 3, 3000),
           makeApiRequest(<<"users", "getByEmail">>, "POST", Undefined, Undefined, Undefined) }
    \cup createApiMethods("accounts")
    \cup { makeApiRequest(<<"accounts", "getByProvider">>, "POST", Undefined, Undefined, Undefined),
           makeApiRequest(<<"ai", "getAnswer">>, "POST", 100000, Undefined, Undefined) }

\* fetchHandler called with maxRetries given directly, zero included.
DirectCalls ==
  { [call |-> <<"direct", "fetchHandler">>, method |-> "GET", timeout |-> Undefined,
     maxRetries |-> n, retryDelay |-> Undefined] : n \in 0..MaxRetriesOption }

AbortError == [class |-> "AbortError", statusCode |-> 0, message |-> "This operation was aborted"]
NetworkError == [class |-> "TypeError", statusCode |-> 0, message |-> "fetch failed"]
ParseError == [class |-> "SyntaxError", statusCode |-> 0, message |-> "Unexpected token"]
RequestError(status) == [class |-> "RequestError", statusCode |-> status, message |-> "HTTP error"]

\* The status codes of a response that is not ok.
ErrorStatuses == {404, 500}

\* handleFetchError: logs, then handleError(err).
handleFetchError(err) == handleError(err)

\* The entry of fetchHandler: the defaults are applied and attempt is 0.
fetchHandler(options) ==
  [call |-> options.call, method |-> options.method,
   timeout |-> IF options.timeout = Undefined THEN DefaultTimeout ELSE options.timeout,
   maxRetries |-> IF options.maxRetries = Undefined THEN DefaultMaxRetries ELSE options.maxRetries,
   retryDelay |-> IF options.retryDelay = Undefined THEN DefaultRetryDelay ELSE options.retryDelay,
   attempt |-> 0, phase |-> "loop", timer |-> FALSE, sent |-> 0, waits |-> <<>>,
   response |-> NoResult]

\* catch (err): clearTimeout; the last attempt returns handleFetchError, any
\* other one goes on to the backoff wait.
catchBlock(f, err) ==
  IF f.attempt = f.maxRetries - 1
    THEN [f EXCEPT !.timer = FALSE, !.phase = "returned", !.response = handleFetchError(err)]
    ELSE [f EXCEPT !.timer = FALSE, !.phase = "waiting"]

\* while (attempt < maxRetries): createAbortController arms the abort timer
\* and fetch sends the request; past the loop the function throws.
EnterLoop ==
  /\ fetching.phase = "loop"
  /\ fetching' =
       IF fetching.attempt < fetching.maxRetries
         THEN [fetching EXCEPT !.timer = TRUE, !.sent = @ + 1, !.phase = "fetch"]
         ELSE [fetching EXCEPT !.phase = "thrown",
                               !.response = Rejection(PlainError("Max retries exceeded"))]
  /\ UNCHANGED <<storeVars, signingIn, collections, dbSession, cached>>

\* fetch resolves with the response head: clearTimeout, then handleResponse
\* throws RequestError when the response is not ok and reads the body
\* otherwise.
FetchResolves ==
  /\ fetching.phase = "fetch"
  /\ \/ fetching' = [fetching EXCEPT !.timer = FALSE, !.phase = "body"]
     \/ \E status \in ErrorStatuses : fetching' = catchBlock(fetching, RequestError(status))
  /\ UNCHANGED <<storeVars, signingIn, collections, dbSession, cached>>

\* fetch rejects: the network failed.
FetchRejects ==
  /\ fetching.phase = "fetch"
  /\ fetching' = catchBlock(fetching, NetworkError)
  /\ UNCHANGED <<storeVars, signingIn, collections, dbSession, cached>>

\* The abort timer fires after timeout ms: controller.abort() rejects what is
\* pending on the signal with an AbortError.
AbortTimerFires ==
  /\ fetching.phase \in {"fetch", "body"}
  /\ fetching.timer
  /\ fetching' = catchBlock(fetching, AbortError)
  /\ UNCHANGED <<storeVars, signingIn, collections, dbSession, cached>>

\* response.json() resolves: the parsed body is returned.
BodyResolves ==
  /\ fetching.phase = "body"
  /\ fetching' = [fetching EXCEPT !.phase = "returned", !.response = SuccessResponse]
  /\ UNCHANGED <<storeVars, signingIn, collections, dbSession, cached>>

\* response.json() rejects: the body is not JSON, or the connection broke.
BodyRejects ==
  /\ fetching.phase = "body"
  /\ \E err \in {ParseError, NetworkError} : fetching' = catchBlock(fetching, err)
  /\ UNCHANGED <<storeVars, signingIn, collections, dbSession, cached>>

\* setTimeout(resolve, retryDelay * (attempt + 1)) elapses; attempt++.
WaitElapses ==
  /\ fetching.phase = "waiting"
  /\ fetching' = [fetching EXCEPT !.waits = Append(@, fetching.retryDelay * (fetching.attempt + 1)),
                                  !.attempt = @ + 1, !.phase = "loop"]
  /\ UNCHANGED <<storeVars, signingIn, collections, dbSession, cached>>

InitFetch ==
  /\ StoreIdle
  /\ \E options \in api \cup DirectCalls : fetching = fetchHandler(options)
  /\ signingIn = <<>>
  /\ collections = <<>>
  /\ dbSession = <<>>
  /\ cached = <<>>

NextFetch ==
  \/ EnterLoop
  \/ FetchResolves
  \/ FetchRejects
  \/ AbortTimerFires
  \/ BodyResolves
  \/ BodyRejects
  \/ WaitElapses

SpecFetch == InitFetch /\ [][NextFetch]_vars

-----------------------------------------------------------------------------
(* retryOAuthSignIn: the loop around api.auth.oAuthSignIn.  The call under   *)
(* the loop is taken with every behaviour it can show: a response with       *)
(* success true, a response with success false, a thrown error.              *)

\* const maxAttempts = 5
maxAttempts == 5

\* Number of calls of api.auth.oAuthSignIn the model follows one invocation for.
MaxSignInCalls == 6

Providers == {"github", "google"}

\* The entry of retryOAuthSignIn: attempt = 0, success = false.
retryOAuthSignIn(provider) ==
  [provider |-> provider, attempt |-> 0, success |-> FALSE, phase |-> "loop", sent |-> 0]

\* while (attempt < maxAttempts): the next call is made; past the loop the
\* function returns success.
CallOAuthSignIn ==
  /\ signingIn.phase = "loop"
  /\ IF signingIn.attempt < maxAttempts
       THEN /\ signingIn.sent < MaxSignInCalls
            /\ signingIn' = [signingIn EXCEPT !.phase = "calling", !.sent = @ + 1]
       ELSE signingIn' = [signingIn EXCEPT !.phase = "returned"]
  /\ UNCHANGED <<storeVars, fetching, collections, dbSession, cached>>

\* The call returns a response: success = response.success; break when it is
\* true, otherwise the loop goes round with attempt as it was.
OAuthSignInReturns ==
  /\ signingIn.phase = "calling"
  /\ \E success \in BOOLEAN :
       signingIn' = [signingIn EXCEPT !.success = success,
                                      !.phase = IF success THEN "returned" ELSE "loop"]
  /\ UNCHANGED <<storeVars, fetching, collections, dbSession, cached>>

\* The call throws: attempt++, and a wait of retryDelay unless that was the
\* last attempt.
OAuthSignInThrows ==
  /\ signingIn.phase = "calling"
  /\ signingIn' = [signingIn EXCEPT !.attempt = @ + 1,
                                    !.phase = IF signingIn.attempt + 1 < maxAttempts
                                                THEN "waiting" ELSE "loop"]
  /\ UNCHANGED <<storeVars, fetching, collections, dbSession, cached>>

\* setTimeout(resolve, retryDelay) elapses.
SignInWaitElapses ==
  /\ signingIn.phase = "waiting"
  /\ signingIn' = [signingIn EXCEPT !.phase = "loop"]
  /\ UNCHANGED <<storeVars, fetching, collections, dbSession, cached>>

InitSignIn ==
  /\ StoreIdle
  /\ \E provider \in Providers : signingIn = retryOAuthSignIn(provider)
  /\ fetching = <<>>
  /\ collections = <<>>
  /\ dbSession = <<>>
  /\ cached = <<>>

NextSignIn == CallOAuthSignIn \/ OAuthSignInReturns \/ OAuthSignInThrows \/ SignInWaitElapses

SpecSignIn == InitSignIn /\ [][NextSignIn]_vars

-----------------------------------------------------------------------------
(* Concurrent createAnswer requests.  In this specification a Question       *)
(* document is [answers], its answer counter, and an Answer document is      *)
(* [author, question].  Question.findById(questionId) runs without the       *)
(* session and sees the committed store; Answer.create([...], {session}) is  *)
(* the first operation of the transaction and fixes its snapshot;            *)
(* question.save({session}) writes the counter the request computed from     *)
(* the document it read.                                                     *)

NotRead == -1

IdleAnswerRequest ==
  [phase |-> "idle", req |-> NoRequest, read |-> NotRead, snap |-> <<>>, held |-> FALSE,
   response |-> NoResult]

\* The question with no answers that the requests are about.
UnansweredQuestion == 1 :> [answers |-> 0]

\* createAnswer up to session.startTransaction(): validateInput has yielded
\* the params and the user.
ReceiveAnswer(r, request) ==
  /\ procs[r].phase = "idle"
  /\ procs' = [procs EXCEPT ![r].phase = "received", ![r].req = request]
  /\ UNCHANGED <<questions, answers>>

\* const question = await Question.findById(questionId), outside the session.
findQuestion(r) ==
  /\ procs[r].phase = "received"
  /\ procs' = [procs EXCEPT ![r] =
       IF procs[r].req.questionId \in DOMAIN questions
         THEN [@ EXCEPT !.phase = "read", !.read = questions[procs[r].req.questionId].answers]
         ELSE [@ EXCEPT !.phase = "aborting",
                        !.response = handleError(PlainError("Question not found"))]]
  /\ UNCHANGED <<questions, answers>>

\* Answer.create([{author, question, content}], {session}): the insert opens
\* the snapshot of the transaction.
createAnswerDocument(r) ==
  /\ procs[r].phase = "read"
  /\ procs' = [procs EXCEPT ![r].phase = "created", ![r].snap = questions]
  /\ UNCHANGED <<questions, answers>>

\* The write of the Question document meets a write conflict when another
\* open transaction has written the document or the document has changed
\* since the snapshot.
AnswerWriteConflict(r) ==
  \/ \E o \in Requests \ {r} :
       procs[o].held /\ procs[o].req.questionId = procs[r].req.questionId
  \/ questions[procs[r].req.questionId] # procs[r].snap[procs[r].req.questionId]

\* question.answers += 1; await question.save({session}): the counter that
\* is written is the one read by findById, plus one.
savedCounter(p, qs) == p.read + 1

saveQuestion(r) ==
  /\ procs[r].phase = "created"
  /\ procs' = [procs EXCEPT ![r] =
       IF AnswerWriteConflict(r)
         THEN [@ EXCEPT !.phase = "aborting", !.response = handleError(WriteConflictError)]
         ELSE [@ EXCEPT !.phase = "saved", !.held = TRUE]]
  /\ UNCHANGED <<questions, answers>>

\* await session.commitTransaction(): the Answer document and the counter
\* become visible together; the action returns success.
commitAnswer(r) ==
  /\ procs[r].phase = "saved"
  /\ answers' = answers @@ (Cardinality(DOMAIN answers) + 1 :>
                  [author |-> procs[r].req.session, question |-> procs[r].req.questionId])
  /\ questions' = [questions EXCEPT ![procs[r].req.questionId].answers =
                     savedCounter(procs[r], questions)]
  /\ procs' = [procs EXCEPT ![r].phase = "done", ![r].held = FALSE,
                            ![r].response = SuccessResponse]

\* catch: await session.abortTransaction(); return handleError(error).
abortAnswer(r) ==
  /\ procs[r].phase = "aborting"
  /\ procs' = [procs EXCEPT ![r].phase = "done", ![r].held = FALSE]
  /\ UNCHANGED <<questions, answers>>

AnswerArrives ==
  /\ \E r \in Requests, s \in Users, q \in QuestionIds :
       ReceiveAnswer(r, [op |-> "createAnswer", session |-> s, questionId |-> q])
  /\ UNCHANGED <<tags, links, votes, result, req, pre, calls, prev, infra>>

AnswerReadsQuestion ==
  /\ \E r \in Requests : findQuestion(r)
  /\ UNCHANGED <<tags, links, votes, result, req, pre, calls, prev, infra>>

AnswerIsCreated ==
  /\ \E r \in Requests : createAnswerDocument(r)
  /\ UNCHANGED <<tags, links, votes, result, req, pre, calls, prev, infra>>

AnswerSavesQuestion ==
  /\ \E r \in Requests : saveQuestion(r)
  /\ UNCHANGED <<tags, links, votes, result, req, pre, calls, prev, infra>>

AnswerCommits ==
  /\ \E r \in Requests : commitAnswer(r)
  /\ UNCHANGED <<tags, links, votes, result, req, pre, calls, prev, infra>>

AnswerAborts ==
  /\ \E r \in Requests : abortAnswer(r)
  /\ UNCHANGED <<tags, links, votes, result, req, pre, calls, prev, infra>>

InitConcurrentAnswers ==
  /\ tags = <<>>
  /\ questions = UnansweredQuestion
  /\ links = EmptyLinks
  /\ answers = <<>>
  /\ votes = EmptyVotes
  /\ result = NoResult
  /\ req = NoRequest
  /\ pre = Snapshot
  /\ calls = 0
  /\ prev = NoHistory
  /\ procs = [r \in Requests |-> IdleAnswerRequest]
  /\ InfraIdle

NextConcurrentAnswers ==
  \/ AnswerArrives
  \/ AnswerReadsQuestion
  \/ AnswerIsCreated
  \/ AnswerSavesQuestion
  \/ AnswerCommits
  \/ AnswerAborts

SpecConcurrentAnswers == InitConcurrentAnswers /\ [][NextConcurrentAnswers]_vars

-----------------------------------------------------------------------------
(* Concurrent toggleSaveQuestion requests.  The action uses no session and   *)
(* no transaction: each of its awaits is a step of its own on the committed  *)
(* store.  collections is [docs, created, unique]: the Collection documents, *)
(* the number of documents created so far (ObjectIds are not reused) and     *)
(* whether the collection has a unique index on (author, question).  The     *)
(* Collection schema is not among the sources and nothing states such an     *)
(* index, so both cases are followed.                                        *)

\* Number of toggleSaveQuestion calls one client makes, one after the other.
MaxToggles == 2

NoCollection == 0

IdleToggleRequest ==
  [phase |-> "idle", req |-> NoRequest, existingCollection |-> NoCollection,
   response |-> NoResult, saved |-> FALSE, savedAfter |-> FALSE, toggles |-> 0]

\* Collection.findOne({question: questionId, author: userId}): a matching
\* document, or none.
findOneCollection(docs, questionId, userId) ==
  { c \in DOMAIN docs : docs[c].question = questionId /\ docs[c].author = userId }

DuplicateKeyError == PlainError("E11000 duplicate key error")

\* toggleSaveQuestion up to validateInput: the params and the user.
ReceiveToggle(r, request) ==
  /\ procs[r].phase \in {"idle", "done"}
  /\ procs[r].toggles < MaxToggles
  /\ procs' = [procs EXCEPT ![r] = [IdleToggleRequest EXCEPT !.phase = "received", !.req = request,
                                                             !.toggles = procs[r].toggles + 1]]
  /\ UNCHANGED collections

\* await validateQuestionExists(questionId): throws when there is no such
\* question; the catch returns handleError(error).
validateQuestionExists(r) ==
  /\ procs[r].phase = "received"
  /\ procs' = [procs EXCEPT ![r] =
       IF procs[r].req.questionId \in DOMAIN questions
         THEN [@ EXCEPT !.phase = "validated"]
         ELSE [@ EXCEPT !.phase = "done",
                        !.response = handleError(PlainError("Question not found"))]]
  /\ UNCHANGED collections

\* const existingCollection = await Collection.findOne({question, author}).
findExistingCollection(r) ==
  /\ procs[r].phase = "validated"
  /\ LET found == findOneCollection(collections.docs, procs[r].req.questionId, procs[r].req.session)
     IN  \/ /\ found = {}
            /\ procs' = [procs EXCEPT ![r].phase = "found", ![r].existingCollection = NoCollection]
         \/ \E c \in found :
              procs' = [procs EXCEPT ![r].phase = "found", ![r].existingCollection = c]
  /\ UNCHANGED collections

\* Whether the user has the question saved in the given documents.
IsSaved(docs, request) == findOneCollection(docs, request.questionId, request.session) # {}

\* removeFromCollection(existingCollection.id): findByIdAndDelete deletes the
\* document when it is still there; returns {success: true, data: {saved:
\* false}}.
removeFromCollection(r) ==
  /\ procs[r].phase = "found"
  /\ procs[r].existingCollection # NoCollection
  /\ collections' = [collections EXCEPT !.docs =
       [c \in DOMAIN collections.docs \ {procs[r].existingCollection} |-> collections.docs[c]]]
  /\ procs' = [procs EXCEPT ![r].phase = "done", ![r].response = SuccessResponse,
                            ![r].saved = FALSE,
                            ![r].savedAfter = IsSaved(collections'.docs, procs[r].req)]

\* addToCollection(questionId, userId): Collection.create inserts a document
\* and the action returns {success: true, data: {saved: true}}; under a
\* unique index an insert for a pair that is already saved throws, and the
\* catch returns handleError(error).
addToCollection(r) ==
  /\ procs[r].phase = "found"
  /\ procs[r].existingCollection = NoCollection
  /\ IF collections.unique /\ IsSaved(collections.docs, procs[r].req)
       THEN /\ procs' = [procs EXCEPT ![r].phase = "done",
                                      ![r].response = handleError(DuplicateKeyError)]
            /\ UNCHANGED collections
       ELSE /\ collections' = [collections EXCEPT
                 !.docs = @ @@ (collections.created + 1 :>
                            [author |-> procs[r].req.session, question |-> procs[r].req.questionId]),
                 !.created = @ + 1]
            /\ procs' = [procs EXCEPT ![r].phase = "done", ![r].response = SuccessResponse,
                                      ![r].saved = TRUE,
                                      ![r].savedAfter = IsSaved(collections'.docs, procs[r].req)]

ToggleArrives ==
  /\ \E r \in Requests, s \in Users, q \in QuestionIds :
       ReceiveToggle(r, [op |-> "toggleSaveQuestion", session |-> s, questionId |-> q])
  /\ UNCHANGED <<tags, questions, links, answers, votes, result, req, pre, calls, prev,
                 fetching, signingIn, dbSession, cached>>

ToggleValidates ==
  /\ \E r \in Requests : validateQuestionExists(r)
  /\ UNCHANGED <<tags, questions, links, answers, votes, result, req, pre, calls, prev,
                 fetching, signingIn, dbSession, cached>>

ToggleFinds ==
  /\ \E r \in Requests : findExistingCollection(r)
  /\ UNCHANGED <<tags, questions, links, answers, votes, result, req, pre, calls, prev,
                 fetching, signingIn, dbSession, cached>>

ToggleRemoves ==
  /\ \E r \in Requests : removeFromCollection(r)
  /\ UNCHANGED <<tags, questions, links, answers, votes, result, req, pre, calls, prev,
                 fetching, signingIn, dbSession, cached>>

ToggleAdds ==
  /\ \E r \in Requests : addToCollection(r)
  /\ UNCHANGED <<tags, questions, links, answers, votes, result, req, pre, calls, prev,
                 fetching, signingIn, dbSession, cached>>

InitToggles ==
  /\ tags = <<>>
  /\ questions = UnansweredQuestion
  /\ links = EmptyLinks
  /\ answers = <<>>
  /\ votes = EmptyVotes
  /\ result = NoResult
  /\ req = NoRequest
  /\ pre = Snapshot
  /\ calls = 0
  /\ prev = NoHistory
  /\ procs = [r \in Requests |-> IdleToggleRequest]
  /\ \E unique \in BOOLEAN : collections = [docs |-> <<>>, created |-> 0, unique |-> unique]
  /\ fetching = <<>>
  /\ signingIn = <<>>
  /\ dbSession = <<>>
  /\ cached = <<>>

NextToggles == ToggleArrives \/ ToggleValidates \/ ToggleFinds \/ ToggleRemoves \/ ToggleAdds

SpecToggles == InitToggles /\ [][NextToggles]_vars

-----------------------------------------------------------------------------
(* The session of a transactional operation, call by call.  dbSession is     *)
(* [op, phase, events, committed, transactionCommitted, ended, postFailed,   *)
(* rejects, response]: events lists the calls made on the session, rejects   *)
(* tells that an error thrown in the catch block is on its way out.          *)

TransactionalOps ==
  {"createQuestion", "editQuestion", "createVote", "createAnswer", "signUpWithCredentials",
   "signInWithOAuth"}

\* The step an operation runs between commitTransaction and its return.
postCommitStep(op) ==
  CASE op \in {"createVote", "createAnswer"} -> "revalidatePath"
    [] op = "signUpWithCredentials" -> "authenticateUser"
    [] OTHER -> "none"

\* createVote ends the session in its try and catch blocks and has no
\* finally block; every other operation ends it in finally.
hasFinally(op) == op # "createVote"

\* What the try block can throw before the commit.
TryErrors ==
  {PlainError("Question not found"), PlainError("Unauthorized"), PlainError("User already exists"),
   WriteConflictError}

PostCommitError == PlainError("post-commit step failed")
CommitError == PlainError("commit failed")
AbortAfterCommitError == PlainError("Cannot call abortTransaction after calling commitTransaction")

\* const session = await mongoose.startSession(); session.startTransaction().
startSession(op) ==
  [op |-> op, phase |-> "try", events |-> <<>>, committed |-> FALSE,
   transactionCommitted |-> FALSE, ended |-> 0, postFailed |-> FALSE, rejects |-> FALSE,
   response |-> NoResult]

endSession(s) == [s EXCEPT !.events = Append(@, "endSession"), !.ended = @ + 1]

\* The return of a response: through finally where the operation has one.
returns(s, response) ==
  IF hasFinally(s.op)
    THEN [s EXCEPT !.phase = "finally", !.response = response]
    ELSE [s EXCEPT !.phase = "returned", !.response = response]

\* await session.abortTransaction() in the catch block.
abortTransactionCall(s) == [s EXCEPT !.events = Append(@, "abortTransaction")]

\* The statements of the try block before the commit run to their end or
\* throw.  signInWithOAuth sets transactionCommitted before it commits.
TryBlockRuns ==
  /\ dbSession.phase = "try"
  /\ \/ dbSession' = [dbSession EXCEPT !.phase = "commit",
                                       !.transactionCommitted = (dbSession.op = "signInWithOAuth")]
     \/ \E error \in TryErrors :
          dbSession' = [dbSession EXCEPT !.phase = "catch", !.response = handleError(error)]
  /\ UNCHANGED <<storeVars, fetching, signingIn, collections, cached>>

\* await session.commitTransaction(): succeeds or throws.  After it createVote
\* ends the session; an operation without a later step returns.
CommitTransaction ==
  /\ dbSession.phase = "commit"
  /\ \/ LET done == [dbSession EXCEPT !.events = Append(@, "commitTransaction"), !.committed = TRUE]
            s == IF hasFinally(done.op) THEN done ELSE endSession(done)
        IN  dbSession' = IF postCommitStep(s.op) = "none"
                           THEN returns(s, SuccessResponse)
                           ELSE [s EXCEPT !.phase = "post"]
     \/ dbSession' = [dbSession EXCEPT !.phase = "catch", !.response = handleError(CommitError)]
  /\ UNCHANGED <<storeVars, fetching, signingIn, collections, cached>>

\* revalidatePath(...) or authenticateUser(...) after the commit: returns, and
\* the operation returns success, or throws into the catch block.
PostCommitStepRuns ==
  /\ dbSession.phase = "post"
  /\ \/ dbSession' = returns(dbSession, SuccessResponse)
     \/ dbSession' = [dbSession EXCEPT !.phase = "catch", !.postFailed = TRUE,
                                       !.response = handleError(PostCommitError)]
  /\ UNCHANGED <<storeVars, fetching, signingIn, collections, cached>>

\* The catch block.  signInWithOAuth skips the abort when transactionCommitted
\* is set; every other operation calls abortTransaction.  On a transaction
\* that was committed the call throws, or does nothing, and a throw leaves
\* the catch block before its return (and before createVote's endSession).
CatchBlockRuns ==
  /\ dbSession.phase = "catch"
  /\ IF dbSession.op = "signInWithOAuth" /\ dbSession.transactionCommitted
       THEN dbSession' = returns(dbSession, dbSession.response)
       ELSE LET s == abortTransactionCall(dbSession)
            IN  \/ dbSession' = returns(IF hasFinally(s.op) THEN s ELSE endSession(s), s.response)
                \/ /\ s.committed
                   /\ dbSession' = [s EXCEPT !.rejects = TRUE,
                                             !.response = Rejection(AbortAfterCommitError),
                                             !.phase = IF hasFinally(s.op) THEN "finally"
                                                                           ELSE "rejected"]
  /\ UNCHANGED <<storeVars, fetching, signingIn, collections, cached>>

\* finally { session.endSession() }, then the return or the pending throw.
FinallyBlockRuns ==
  /\ dbSession.phase = "finally"
  /\ dbSession' = [endSession(dbSession) EXCEPT
                     !.phase = IF dbSession.rejects THEN "rejected" ELSE "returned"]
  /\ UNCHANGED <<storeVars, fetching, signingIn, collections, cached>>

InitSessions ==
  /\ StoreIdle
  /\ \E op \in TransactionalOps : dbSession = startSession(op)
  /\ fetching = <<>>
  /\ signingIn = <<>>
  /\ collections = <<>>
  /\ cached = <<>>

NextSessions ==
  \/ TryBlockRuns
  \/ CommitTransaction
  \/ PostCommitStepRuns
  \/ CatchBlockRuns
  \/ FinallyBlockRuns

SpecSessions == InitSessions /\ [][NextSessions]_vars

-----------------------------------------------------------------------------
(* dbConnect and connectWithRetry.  cached is [connect, promise, reachable,  *)
(* started]: cached.connect and cached.promise of global.mongoose (the       *)
(* promise as none, pending, resolved or rejected), whether the database     *)
(* can be reached, and the number of mongoose.connect calls made.  procs     *)
(* holds the callers of connectWithRetry.                                    *)

\* connectWithRetry(retries = 5, delay = 3000)
retries == 5

IdleCaller == [phase |-> "loop", attempts |-> 0, reachableAtCall |-> FALSE, replayed |-> FALSE]

\* while (attempts < retries) { await dbConnect() ... }: dbConnect returns the
\* cached connection, or starts mongoose.connect when there is no promise in
\* the cache, and hands out cached.promise.
dbConnect(c) ==
  /\ procs[c].phase = "loop"
  /\ procs[c].attempts < retries
  /\ IF cached.connect
       THEN /\ procs' = [procs EXCEPT ![c].phase = "connected", ![c].reachableAtCall = cached.reachable]
            /\ UNCHANGED cached
       ELSE /\ procs' = [procs EXCEPT ![c].phase = "awaiting", ![c].reachableAtCall = cached.reachable]
            /\ IF cached.promise = "none"
                 THEN cached' = [cached EXCEPT !.promise = "pending", !.started = @ + 1]
                 ELSE UNCHANGED cached

\* mongoose.connect settles: .then caches the connection, .catch rethrows and
\* leaves cached.promise as it is.
connectSettles ==
  /\ cached.promise = "pending"
  /\ cached' = IF cached.reachable
                 THEN [cached EXCEPT !.promise = "resolved", !.connect = TRUE]
                 ELSE [cached EXCEPT !.promise = "rejected"]
  /\ UNCHANGED procs

\* The await of dbConnect() ends: return on a connection; on a rejection
\* attempts++, then the throw after the last attempt or the wait of delay.
connectWithRetry(c) ==
  /\ procs[c].phase = "awaiting"
  /\ cached.promise \in {"resolved", "rejected"}
  /\ procs' = [procs EXCEPT ![c] =
       IF cached.promise = "resolved"
         THEN [@ EXCEPT !.phase = "connected"]
         ELSE [@ EXCEPT !.attempts = @ + 1,
                        !.replayed = @ \/ procs[c].reachableAtCall,
                        !.phase = IF procs[c].attempts + 1 >= retries THEN "failed" ELSE "waiting"]]
  /\ UNCHANGED cached

\* setTimeout(resolve, delay) elapses.
delayElapses(c) ==
  /\ procs[c].phase = "waiting"
  /\ procs' = [procs EXCEPT ![c].phase = "loop"]
  /\ UNCHANGED cached

\* The database becomes reachable.
DatabaseComesUp ==
  /\ ~ cached.reachable
  /\ cached' = [cached EXCEPT !.reachable = TRUE]
  /\ UNCHANGED <<tags, questions, links, answers, votes, result, req, pre, calls, prev, procs,
                 fetching, signingIn, collections, dbSession>>

CallerConnects ==
  /\ \E c \in Requests : dbConnect(c)
  /\ UNCHANGED <<tags, questions, links, answers, votes, result, req, pre, calls, prev,
                 fetching, signingIn, collections, dbSession>>

ConnectionSettles ==
  /\ connectSettles
  /\ UNCHANGED <<tags, questions, links, answers, votes, result, req, pre, calls, prev,
                 fetching, signingIn, collections, dbSession>>

CallerResumes ==
  /\ \E c \in Requests : connectWithRetry(c)
  /\ UNCHANGED <<tags, questions, links, answers, votes, result, req, pre, calls, prev,
                 fetching, signingIn, collections, dbSession>>

CallerDelayElapses ==
  /\ \E c \in Requests : delayElapses(c)
  /\ UNCHANGED <<tags, questions, links, answers, votes, result, req, pre, calls, prev,
                 fetching, signingIn, collections, dbSession>>

InitConnect ==
  /\ tags = <<>>
  /\ questions = <<>>
  /\ links = EmptyLinks
  /\ answers = <<>>
  /\ votes = EmptyVotes
  /\ result = NoResult
  /\ req = NoRequest
  /\ pre = Snapshot
  /\ calls = 0
  /\ prev = NoHistory
  /\ procs = [c \in Requests |-> IdleCaller]
  /\ \E reachable \in BOOLEAN :
       cached = [connect |-> FALSE, promise |-> "none", reachable |-> reachable, started |-> 0]
  /\ fetching = <<>>
  /\ signingIn = <<>>
  /\ collections = <<>>
  /\ dbSession = <<>>

NextConnect ==
  \/ DatabaseComesUp
  \/ CallerConnects
  \/ ConnectionSettles
  \/ CallerResumes
  \/ CallerDelayElapses

SpecConnect == InitConnect /\ [][NextConnect]_vars

----------------------------------------------------------------------------
(* Properties *)

\* Number of TagQuestion documents that reference tag t.
LinkCount(lk, t) == SumOver([q \in QuestionIds |-> lk[<<t, q>>]], QuestionIds)

\* Number of Vote documents of type vt on the target.
VoteCount(vs, targetId, targetType, vt) ==
  SumOver([u \in Users |-> vs[<<u, targetId, targetType, vt>>]], Users)

SameNameIgnoringCase(a, b) == toLowerCase(a) = toLowerCase(b)

StoreUnchanged == tags = pre.tags /\ questions = pre.questions /\ links = pre.links

CreateSucceeded == req.op = "createQuestion" /\ result.success

EditSucceeded == req.op = "editQuestion" /\ result.success

VoteSucceeded == req.op = "createVote" /\ result.success

\* C1: after any sequence of createQuestion and editQuestion calls, every
\* existing tag's count (field questions) equals the number of TagQuestion
\* links that reference the tag.
C1_TagCountEqualsLinks ==
  \A t \in DOMAIN tags : tags[t].questions = LinkCount(links, t)

\* C5: after any sequence of createQuestion and editQuestion calls no tag
\* exists whose count is zero or negative; a tag whose count reaches zero in
\* an edit is gone when the edit has committed.
C5_NoTagWithCountBelowOne ==
  \A t \in DOMAIN tags : tags[t].questions >= 1

\* A successful edit took a tag of count 1 off its question, and the tag is gone.
C5_Witness ==
  /\ EditSucceeded
  /\ \E t \in DOMAIN pre.tags :
       /\ pre.tags[t].questions = 1
       /\ t \in SeqToSet(pre.questions[req.questionId].tags)
       /\ t \notin DOMAIN tags

\* The tags of the question before the edit that are tags of the store.
EditCurrent == SeqToSet(pre.questions[req.questionId].tags) \cap DOMAIN pre.tags

NameSubmitted(name) == \E i \in 1..Len(req.tags) : SameNameIgnoringCase(req.tags[i], name)

NameCurrent(name) == \E t \in EditCurrent : SameNameIgnoringCase(pre.tags[t].name, name)

\* C6, removed tags: count - 1 (deleted at 0) and no link left.
EditRemoved(t) ==
  /\ IF pre.tags[t].questions = 1
       THEN t \notin DOMAIN tags
       ELSE t \in DOMAIN tags /\ tags[t].questions = pre.tags[t].questions - 1
  /\ links[<<t, req.questionId>>] = 0

\* C6, added names: a new tag of count 1, or the same-name tag + 1; one link more.
EditAdded(name) ==
  IF \E t \in DOMAIN pre.tags : SameNameIgnoringCase(pre.tags[t].name, name)
    THEN \A t \in DOMAIN pre.tags :
           SameNameIgnoringCase(pre.tags[t].name, name) =>
             /\ t \in DOMAIN tags
             /\ tags[t].questions = pre.tags[t].questions + 1
             /\ links[<<t, req.questionId>>] = pre.links[<<t, req.questionId>>] + 1
    ELSE \E t \in DOMAIN tags \ DOMAIN pre.tags :
           /\ SameNameIgnoringCase(tags[t].name, name)
           /\ tags[t].questions = 1
           /\ links[<<t, req.questionId>>] = 1

\* C6, kept tags: count and link as before.
EditKept(t) ==
  /\ t \in DOMAIN tags
  /\ tags[t] = pre.tags[t]
  /\ links[<<t, req.questionId>>] = pre.links[<<t, req.questionId>>]

\* C6: a successful editQuestion on a question with current tags C and
\* submitted names N applies exactly the delta: a tag of C matching no name of
\* N loses 1 (deleted at 0) and its link; a name of N matching no tag of C
\* makes a tag of count 1 or adds 1 to the same-name tag, and one link; tags in
\* both are untouched; the persisted tags list is the set of tag ids for N.
C6_EditAppliesExactDelta ==
  EditSucceeded =>
    /\ \A t \in EditCurrent :
         IF NameSubmitted(pre.tags[t].name) THEN EditKept(t) ELSE EditRemoved(t)
    /\ \A i \in 1..Len(req.tags) : NameCurrent(req.tags[i]) \/ EditAdded(req.tags[i])
    /\ SeqToSet(questions[req.questionId].tags)
         = { t \in DOMAIN tags : NameSubmitted(tags[t].name) }

\* C7: after any sequence of createQuestion and editQuestion calls, a
\* question's persisted tags list contains a tag id if and only if a
\* TagQuestion link exists for the (tag, question) pair.
C7_TagsListMatchesLinks ==
  \A q \in DOMAIN questions : \A t \in TagIds :
    (t \in SeqToSet(questions[q].tags)) <=> (links[<<t, q>>] > 0)

\* C8: a successful createQuestion with a name that equals an existing tag's
\* name ignoring case creates no second tag: that tag's count grows by
\* exactly 1 and exactly one tag of that name (ignoring case) exists afterwards.
C8_CreateReusesTagIgnoringCase ==
  CreateSucceeded =>
    \A i \in 1..Len(req.tags) : \A t \in DOMAIN pre.tags :
      SameNameIgnoringCase(pre.tags[t].name, req.tags[i]) =>
        /\ t \in DOMAIN tags
        /\ tags[t].questions = pre.tags[t].questions + 1
        /\ Cardinality({ u \in DOMAIN tags : SameNameIgnoringCase(tags[u].name, req.tags[i]) }) = 1

\* C9: when createQuestion fails after its tag upserts (at the link insertion
\* or at the update of the question's tags), nothing of the call is visible
\* afterwards (no count, tag, link or question) and a failure result is returned.
C9_FailedCreateLeavesNothing ==
  (req.op = "createQuestion" /\ req.session # NoSession
     /\ req.fault \in {"insertMany", "updateQuestionTags"}) =>
    /\ StoreUnchanged
    /\ ~ result.threw
    /\ ~ result.success

\* createQuestion failed at the link insertion after it had upserted a name
\* that matches a tag of the store and a name that matches none.
C9_Witness ==
  /\ req.op = "createQuestion"
  /\ req.fault = "insertMany"
  /\ ~ result.success
  /\ \E i \in 1..Len(req.tags) : \E t \in DOMAIN pre.tags : RegexMatch(req.tags[i], pre.tags[t].name)
  /\ \E i \in 1..Len(req.tags) : \A t \in DOMAIN pre.tags : ~ RegexMatch(req.tags[i], pre.tags[t].name)

\* C10: editQuestion by an authenticated user who is not the question's author
\* returns a ForbiddenError failure (status 403) and changes no tag, link or
\* question.
C10_NonAuthorEditForbidden ==
  (/\ req.op = "editQuestion"
   /\ req.session \in Users
   /\ req.questionId \in DOMAIN pre.questions
   /\ pre.questions[req.questionId].author # req.session) =>
    /\ ~ result.threw
    /\ ~ result.success
    /\ result.status = ForbiddenError.statusCode
    /\ StoreUnchanged

TargetExists(targetId, targetType) ==
  IF targetType = "question" THEN targetId \in DOMAIN questions ELSE targetId \in DOMAIN answers

Counter(qs, ans, targetId, targetType, vt) ==
  IF targetType = "question" THEN qs[targetId][voteField(vt)] ELSE ans[targetId][voteField(vt)]

VoteState(vs, u, targetId, targetType) ==
  IF vs[<<u, targetId, targetType, "upvote">>] > 0 THEN "Upvoted"
  ELSE IF vs[<<u, targetId, targetType, "downvote">>] > 0 THEN "Downvoted"
  ELSE "NoVote"

\* The transition table: new state, and the deltas of upvotes and downvotes.
TableState(state, vt) ==
  IF state = "NoVote" THEN (IF vt = "upvote" THEN "Upvoted" ELSE "Downvoted")
  ELSE IF state = "Upvoted" THEN (IF vt = "upvote" THEN "NoVote" ELSE "Downvoted")
  ELSE (IF vt = "upvote" THEN "Upvoted" ELSE "NoVote")

TableDelta(state, vt, counter) ==
  IF state = "NoVote" THEN (IF counter = vt THEN 1 ELSE 0)
  ELSE IF state = "Upvoted"
    THEN (IF counter = "upvote" THEN -1 ELSE IF vt = "downvote" THEN 1 ELSE 0)
  ELSE (IF counter = "downvote" THEN -1 ELSE IF vt = "upvote" THEN 1 ELSE 0)

C4_AtMostOneVotePerTriple ==
  \A u \in Users : \A t \in Targets :
    votes[<<u, t[1], t[2], "upvote">>] + votes[<<u, t[1], t[2], "downvote">>] <= 1

\* A user who had downvoted answer 1 upvoted it, and both users hold a vote on it.
C4_Witness ==
  /\ VoteSucceeded
  /\ req.targetType = "answer"
  /\ req.voteType = "upvote"
  /\ VoteState(pre.votes, req.session, req.targetId, req.targetType) = "Downvoted"
  /\ \A u \in Users : VoteState(votes, u, req.targetId, req.targetType) # "NoVote"

\* The last two calls were successful createVote calls with the same user,
\* target and vote type.
SameVoteTwice ==
  /\ VoteSucceeded
  /\ prev.req.op = "createVote"
  /\ prev.result.success
  /\ prev.req.session = req.session
  /\ prev.req.targetId = req.targetId
  /\ prev.req.targetType = req.targetType
  /\ prev.req.voteType = req.voteType

C12_FailedCounterUpdateFailsVote ==
  (/\ req.op = "createVote"
   /\ req.session \in Users
   /\ ~ TargetExists(req.targetId, req.targetType)) =>
    /\ ~ result.success
    /\ votes = pre.votes

\* C13: every failure of a server action (here createQuestion, editQuestion
\* and createVote, called without a session or hitting a missing document or
\* a store failure) reaches the caller as a returned result with success =
\* false and an error message; no call throws or rejects.
C13_FailuresAreReturned ==
  result.op # "none" =>
    /\ ~ result.threw
    /\ ~ result.success => result.message # ""

\* C14: hasVoted called without an authenticated session completes normally
\* and returns a result whose data is {hasUpvoted: false, hasDownvoted:
\* false}; it does not fail or throw.
C14_HasVotedWithoutSession ==
  (req.op = "hasVoted" /\ req.session = NoSession) =>
    /\ ~ result.threw
    /\ result.data = voteStatus({})

\* C15: createVote called without an authenticated session, or with a session
\* that lacks a user id, is rejected before any transaction is started: no
\* Vote document and no counter is written.
C15_UnauthenticatedVoteWritesNothing ==
  (req.op = "createVote" /\ req.session \notin Users) =>
    /\ ~ result.success
    /\ ~ result.transaction
    /\ votes = pre.votes
    /\ questions = pre.questions
    /\ answers = pre.answers

\* createVote with a session that lacks a user id returned its failure while
\* question 1 held an upvote.
C15_Witness ==
  /\ req.op = "createVote"
  /\ req.session = SessionWithoutUserId
  /\ ~ result.threw
  /\ result.status = 500
  /\ questions[1].upvotes = 1

\* C16: after any createQuestion or editQuestion call (also with two submitted
\* names that are equal ignoring case) every (tag, question) pair has at most
\* one link and a question's tags list holds each tag id at most once.
C16_OneLinkPerPair ==
  \A q \in DOMAIN questions :
    /\ \A t \in TagIds : links[<<t, q>>] <= 1
    /\ \A i, j \in 1..Len(questions[q].tags) :
         i # j => questions[q].tags[i] # questions[q].tags[j]

\* The requests of the concurrent specification that have returned.
Done(r) == procs[r].phase = "done"
Committed == { r \in Requests : Done(r) /\ procs[r].response.success }
LostConflict == { r \in Requests : Done(r) /\ procs[r].response.message = WriteConflictError.message }
NamesTag(request, lowerName) ==
  \E i \in 1..Len(request.tags) : toLowerCase(request.tags[i]) = lowerName
TagsNamed(tg, lowerName) == { t \in DOMAIN tg : toLowerCase(tg[t].name) = lowerName }
LowerTagNames == { toLowerCase(name) : name \in TagNames }

\* Both requests are createQuestion, or both editQuestion, they were in flight
\* together, both name a tag that no tag of the initial store has, whatever
\* the case, and each has committed or lost a write conflict.
BothNameMissingTag(lowerName) ==
  /\ \A r \in Requests : /\ r \in Committed \cup LostConflict
                          /\ procs[r].overlapped
                          /\ NamesTag(procs[r].req, lowerName)
  /\ \E op \in {"createQuestion", "editQuestion"} : \A r \in Requests : procs[r].req.op = op
  /\ TagsNamed(pre.tags, lowerName) = {}

\* C17: when two concurrent createQuestion (or editQuestion) requests both name
\* the same tag that does not exist yet, then after both have returned exactly
\* one tag with that name (case ignored) exists, and its usage count is 2 when
\* both committed and 1 when one of them failed.
C17_ConcurrentUpsertOneTag ==
  \A n \in LowerTagNames :
    BothNameMissingTag(n) =>
      /\ Cardinality(TagsNamed(tags, n)) = 1
      /\ Committed # {}
      /\ \A t \in TagsNamed(tags, n) : tags[t].questions = Cardinality(Committed)

\* Request r is an editQuestion that takes tag t off its question: the
\* question carried t in the initial store and the submitted list does not
\* name it.
EditRemoves(r, t) ==
  /\ procs[r].req.op = "editQuestion"
  /\ procs[r].req.questionId \in DOMAIN pre.questions
  /\ t \in SeqToSet(pre.questions[procs[r].req.questionId].tags)
  /\ ~ NamesTag(procs[r].req, toLowerCase(pre.tags[t].name))

\* Both requests were in flight together, have returned, edit two different
\* questions and take tag t off them.
BothRemoveFromDifferentQuestions(t) ==
  /\ \A r \in Requests : Done(r) /\ procs[r].overlapped /\ EditRemoves(r, t)
  /\ procs[1].req.questionId # procs[2].req.questionId

\* C18: when two concurrent editQuestion requests on two different questions
\* both remove the same tag, the tag's final count is its initial count minus
\* the number of removals that committed, the tag is deleted exactly when that
\* is 0, and no tag with count 0 remains.
C18_ConcurrentRemovalsAreSerialized ==
  \A t \in DOMAIN pre.tags :
    BothRemoveFromDifferentQuestions(t) =>
      /\ (t \in DOMAIN tags) = (pre.tags[t].questions - Cardinality(Committed) > 0)
      /\ t \in DOMAIN tags => tags[t].questions = pre.tags[t].questions - Cardinality(Committed)
      /\ \A u \in DOMAIN tags : tags[u].questions # 0

\* Both removals committed and the tag is gone.
C18_Witness ==
  \E t \in DOMAIN pre.tags :
    /\ BothRemoveFromDifferentQuestions(t)
    /\ Committed = Requests
    /\ pre.tags[t].questions = 2
    /\ t \notin DOMAIN tags

CountOf(tg, t) == IF t \in DOMAIN tg THEN tg[t].questions ELSE 0

\* Usage count and link documents of the tags with the name, case ignored.
NameCount(tg, lowerName) ==
  SumOver([t \in DOMAIN tg |-> tg[t].questions], TagsNamed(tg, lowerName))
NameLinks(tg, lk, lowerName) ==
  SumOver([t \in DOMAIN tg |-> LinkCount(lk, t)], TagsNamed(tg, lowerName))

\* Request r is an editQuestion that puts a tag of the name on its question:
\* the submitted list names it and no tag of the question had the name in the
\* initial store.
EditAddsName(r, lowerName) ==
  /\ procs[r].req.op = "editQuestion"
  /\ procs[r].req.questionId \in DOMAIN pre.questions
  /\ NamesTag(procs[r].req, lowerName)
  /\ \A t \in SeqToSet(pre.questions[procs[r].req.questionId].tags) :
       t \in DOMAIN pre.tags => toLowerCase(pre.tags[t].name) # lowerName

\* Both requests were in flight together, have returned, edit the same
\* question, and at least one of them committed.
BothEditSameQuestion ==
  /\ \A r \in Requests : Done(r) /\ procs[r].overlapped /\ procs[r].req.op = "editQuestion"
  /\ procs[1].req.questionId = procs[2].req.questionId
  /\ Committed # {}

\* C19: when two concurrent editQuestion requests for the same question both
\* remove the same tag, or both add it, the tag's count changes by exactly 1 in
\* total and equals the number of link documents of the tag.
C19_SameQuestionEditsCountOnce ==
  BothEditSameQuestion =>
    /\ \A t \in DOMAIN pre.tags :
         (\A r \in Requests : EditRemoves(r, t)) =>
           /\ CountOf(tags, t) = CountOf(pre.tags, t) - 1
           /\ CountOf(tags, t) = LinkCount(links, t)
    /\ \A n \in LowerTagNames :
         (\A r \in Requests : EditAddsName(r, n)) =>
           /\ NameCount(tags, n) = NameCount(pre.tags, n) + 1
           /\ NameCount(tags, n) = NameLinks(tags, links, n)

\* Both requests are createVote calls of the same user for the same target,
\* they were in flight together and have returned; the user had no vote on
\* the target before.
BothVoteOnSameTarget ==
  /\ \A r \in Requests : Done(r) /\ procs[r].overlapped /\ procs[r].req.op = "createVote"
  /\ procs[1].req.session = procs[2].req.session
  /\ procs[1].req.targetId = procs[2].req.targetId
  /\ procs[1].req.targetType = procs[2].req.targetType
  /\ existingVoteTypes(pre, procs[1].req.session, procs[1].req.targetId,
                       procs[1].req.targetType) = {}

VotesOfUserOn(vs, u, targetId, targetType) ==
  SumOver([vt \in VoteTypes |-> vs[<<u, targetId, targetType, vt>>]], VoteTypes)

SubmittedAs(name) ==
  { i \in 1..Len(req.tags) : SameNameIgnoringCase(req.tags[i], name) \/ RegexMatch(req.tags[i], name) }

\* C22: when a successful createQuestion or editQuestion introduces a tag,
\* the new tag carries the name exactly as the caller supplied it, and its
\* count is 1 when one submitted name stands for it.
C22_NewTagKeepsSuppliedName ==
  (CreateSucceeded \/ EditSucceeded) =>
    \A t \in DOMAIN tags \ DOMAIN pre.tags :
      /\ \E i \in 1..Len(req.tags) : req.tags[i] = tags[t].name
      /\ Cardinality(SubmittedAs(tags[t].name)) = 1 => tags[t].questions = 1

\* C23: a fetchHandler invocation with maxRetries >= 1 sends at most maxRetries
\* attempts, an attempt that is still pending has its abort timer armed, the
\* wait before attempt k+1 is retryDelay * k, and it does not end by throwing.
C23_FetchHandlerTerminates ==
  fetching.maxRetries >= 1 =>
    /\ fetching.sent <= fetching.maxRetries
    /\ fetching.phase \in {"fetch", "body"} => fetching.timer
    /\ \A k \in DOMAIN fetching.waits : fetching.waits[k] = fetching.retryDelay * k
    /\ fetching.phase # "thrown"

\* C25: fetchHandler sends a request more than once only when it is a GET or
\* the OAuth account-linking call.
C25_OnlyReadsAreResent ==
  fetching.sent > 1 => (fetching.method = "GET" \/ fetching.call = oAuthSignIn.call)

\* C24: one invocation of retryOAuthSignIn calls api.auth.oAuthSignIn at most
\* maxAttempts times, whatever the calls return or throw.
C24_SignInAttemptsBounded == signingIn.sent <= maxAttempts

\* The Answer documents of a question.
AnswersOf(q) == { a \in DOMAIN answers : answers[a].question = q }

\* C26: when the concurrent createAnswer requests have all returned, the
\* answers counter of the question, 0 at the start, is the number of Answer
\* documents that were committed for it.
C26_AnswersCounterCountsAnswers ==
  (\A r \in Requests : Done(r)) =>
    \A q \in DOMAIN questions : questions[q].answers = Cardinality(AnswersOf(q))

\* The Collection documents of a user for a question.
EntriesOf(u, q) == findOneCollection(collections.docs, q, u)

\* C27: whatever the interleaving of toggleSaveQuestion calls, a user has at
\* most one Collection document per question, and the saved flag a call
\* returned tells whether the user had the question saved when it returned.
C27_OneEntryAndSavedFlag ==
  /\ \A u \in Users, q \in QuestionIds : Cardinality(EntriesOf(u, q)) <= 1
  /\ \A r \in Requests :
       (Done(r) /\ procs[r].response.success) => procs[r].saved = procs[r].savedAfter

\* abortTransaction was called after a commitTransaction that succeeded.
AbortedAfterCommit ==
  \E i, j \in DOMAIN dbSession.events :
    /\ i < j
    /\ dbSession.events[i] = "commitTransaction"
    /\ dbSession.events[j] = "abortTransaction"

SessionOver == dbSession.phase \in {"returned", "rejected"}

\* C28: in a transactional operation abortTransaction is never called after
\* commitTransaction succeeded, the session has been ended exactly once when
\* the operation is over, and an operation whose post-commit step failed
\* returns a result.
C28_SessionLifecycle ==
  /\ ~ AbortedAfterCommit
  /\ SessionOver => dbSession.ended = 1
  /\ (SessionOver /\ dbSession.postFailed) => dbSession.phase = "returned"

\* C29: a dbConnect call made when the database is reachable is not answered
\* with the failure of an earlier attempt, and the callers that wait during
\* one pending attempt wait for that one attempt.
C29_FailedConnectNotReplayed ==
  /\ \A c \in Requests : ~ procs[c].replayed
  /\ (cached.promise = "pending" /\ \A c \in Requests : procs[c].phase = "awaiting")
       => cached.started = 1

\* The Vote documents of the request's user on the request's target.
OwnVoteKey(k) == k[1] = req.session /\ k[2] = req.targetId /\ k[3] = req.targetType

\* C30: a createVote call leaves every Vote document of another user or on
\* another target as it was, and the upvotes and downvotes of every question
\* and answer other than its target, the document of the other type with the
\* same id value included.
C30_CreateVoteFrame ==
  req.op = "createVote" =>
    /\ \A k \in VoteKeys : ~ OwnVoteKey(k) => votes[k] = pre.votes[k]
    /\ DOMAIN questions = DOMAIN pre.questions
    /\ DOMAIN answers = DOMAIN pre.answers
    /\ \A q \in DOMAIN questions :
         ~ (req.targetType = "question" /\ req.targetId = q) =>
           /\ questions[q].upvotes = pre.questions[q].upvotes
           /\ questions[q].downvotes = pre.questions[q].downvotes
    /\ \A a \in DOMAIN answers :
         ~ (req.targetType = "answer" /\ req.targetId = a) =>
           /\ answers[a].upvotes = pre.answers[a].upvotes
           /\ answers[a].downvotes = pre.answers[a].downvotes

\* User 2 has upvoted answer 1, which the other user had already voted on and
\* which shares its id with question 1, itself voted on.
C30_Witness ==
  /\ VoteSucceeded
  /\ req.session = 2
  /\ req.targetId = 1
  /\ req.targetType = "answer"
  /\ req.voteType = "upvote"
  /\ votes[<<2, 1, "answer", "upvote">>] = 1
  /\ pre.votes[<<2, 1, "answer", "upvote">>] = 0
  /\ votes[<<1, 1, "answer", "downvote">>] = 1
  /\ votes[<<1, 1, "question", "upvote">>] = 1
  /\ answers[1].upvotes = pre.answers[1].upvotes + 1
  /\ questions[1].upvotes = 1

====
